---- MODULE Spec2Model ----
(***************************************************************************)
(* State/sync layer of the farm bookkeeping application (src/App.tsx).     *)
(* The entity store is the set of React state cells of the App component;  *)
(* every mutation operation is one event handler call, applied atomically  *)
(* (the functional updaters of one call are committed before the next      *)
(* event is handled, so the closure values a handler reads are the         *)
(* current state).                                                         *)
(*                                                                         *)
(* Strings that the code converts (names: toLowerCase, trim) are sequences *)
(* of one-character strings, so the conversions are computed.              *)
(***************************************************************************)
EXTENDS Integers, Sequences, FiniteSets, TLC

\* ------------------------------------------------------------------ bounds
\* Line items of one bill.
MaxItems == 2
\* Log ids handed out by recordActivity: at most MaxLogs logs are ever
\* recorded, so at most MaxLogs sale mutations take effect in a run.
MaxLogs == 3
\* Products ever added through addProduct.
MaxNewProducts == 1
\* Expenses and liabilities on the books at a time.
MaxEntries == 1
\* Lines of an imported CSV file after the header.
MaxRows == 2
\* The clock the imports stamp their ids with stops here.
MaxStamp == 5
\* Remote writes in flight at a time.
MaxInFlight == 1
\* State changes counted in one burst.
MaxBurst == 2
\* Significant bits of a number (a JavaScript number has 53): whole numbers
\* below 2^MantissaBits are exact.
MantissaBits == 4

VARIABLES sales, customers, products, logs, imageTasks,
          nextSaleId, nextLogId, nextProductId,
          last, stock0, debt, clamped,
          expenses, liabilities, config,
          user, isOfflineMode, firstSync, saveStatus,
          syncTimer, idleTimers, writes, localStore, remoteDoc,
          hydratedFor, syncedDeps, listening, burst

storeVars == <<sales, customers, products, logs, imageTasks>>
idVars == <<nextSaleId, nextLogId, nextProductId>>
ghostVars == <<stock0, debt, clamped>>
\* the rest of the entity store: expenses, liabilities and the four
\* configuration scalars
ledgerVars == <<expenses, liabilities, config>>
\* the session and the persistence/sync controller
syncVars == <<user, isOfflineMode, firstSync, saveStatus, syncTimer, idleTimers,
              writes, localStore, remoteDoc, hydratedFor, syncedDeps, listening,
              burst>>
extVars == <<ledgerVars, syncVars>>
vars == <<sales, customers, products, logs, imageTasks,
          nextSaleId, nextLogId, nextProductId, last, stock0, debt, clamped,
          expenses, liabilities, config,
          user, isOfflineMode, firstSync, saveStatus,
          syncTimer, idleTimers, writes, localStore, remoteDoc,
          hydratedFor, syncedDeps, listening, burst>>

\* ----------------------------------------------------------------- strings
\* String.prototype.toLowerCase on the characters the model uses.
UpperAlphabet == <<"A", "B", "C", "D", "E", "I", "K", "L", "N", "O", "P", "R">>
LowerAlphabet == <<"a", "b", "c", "d", "e", "i", "k", "l", "n", "o", "p", "r">>

LowerChar(c) ==
  IF \E i \in 1..Len(UpperAlphabet) : UpperAlphabet[i] = c
  THEN LowerAlphabet[CHOOSE i \in 1..Len(UpperAlphabet) : UpperAlphabet[i] = c]
  ELSE c

ToLowerCase(s) == [i \in 1..Len(s) |-> LowerChar(s[i])]

RECURSIVE TrimStart(_)
TrimStart(s) == IF s # <<>> /\ Head(s) = " " THEN TrimStart(Tail(s)) ELSE s

RECURSIVE TrimEnd(_)
TrimEnd(s) ==
  IF s # <<>> /\ s[Len(s)] = " " THEN TrimEnd(SubSeq(s, 1, Len(s) - 1)) ELSE s

\* String.prototype.trim
Trim(s) == TrimEnd(TrimStart(s))

\* name.toLowerCase().trim()
NormName(s) == Trim(ToLowerCase(s))

\* The sentinels of addSale/updateSale/deleteSale.
Unknown == <<"U", "n", "k", "n", "o", "w", "n">>
Retail == <<"R", "e", "t", "a", "i", "l">>

Kale == <<"K", "a", "l", "e">>
Rice == <<"R", "i", "c", "e">>
Ann == <<"A", "n", "n">>
Bob == <<"B", "o", "b">>
AnnLee == <<"A", "n", "n", " ", "L", "e", "e">>

\* ----------------------------------------------------------------- helpers
Max(a, b) == IF a >= b THEN a ELSE b

\* The value a JavaScript arithmetic operation stores for the exact result
\* n: the nearest number with MantissaBits significant bits, ties to the
\* even mantissa (IEEE 754 round-to-nearest-even).
Fl(n) ==
  LET RECURSIVE Bits(_)
      Bits(k) == IF k = 0 THEN 0 ELSE 1 + Bits(k \div 2)
      abs == IF n < 0 THEN -n ELSE n
      ulp == 2 ^ (Bits(abs) - MantissaBits)
      lo == (abs \div ulp) * ulp
      rest == abs - lo
      up == 2 * rest > ulp \/ (2 * rest = ulp /\ (lo \div ulp) % 2 = 1)
      rounded == IF up THEN lo + ulp ELSE lo
  IN IF Bits(abs) <= MantissaBits THEN n
     ELSE IF n < 0 THEN -rounded ELSE rounded

Range(s) == {s[i] : i \in 1..Len(s)}

\* Array.prototype.find by id: <<>> for undefined, <<x>> for the first match.
FindById(seq, id) ==
  LET hits == SelectSeq(seq, LAMBDA x : x.id = id)
  IN IF hits = <<>> THEN <<>> ELSE <<Head(hits)>>

\* found?.name || dflt   (an empty name is falsy too)
NameOr(found, dflt) ==
  IF found = <<>> \/ found[1].name = <<>> THEN dflt ELSE found[1].name

NoMeta == <<>>

\* ------------------------------------------------------------- input sets
\* Ids are Date.now() stamps; each kind is kept apart from the others.
Pid(n) == <<"p", n>>
Cid(n) == <<"c", n>>
P1 == Pid(1)
P2 == Pid(2)
C1id == Cid(1)
C2id == Cid(2)
\* A customer id that is not (or no longer) in the store.
C3id == Cid(3)
ProductIds == {Pid(n) : n \in 1..(2 + MaxNewProducts)}
CustomerIds == {C1id, C2id}
Quantities == {1, 2}
CustomerNames == {Ann, Bob, AnnLee}
\* Names typed into the product form: a new name, and spellings that differ
\* from catalogued names only by case and surrounding blanks.
Corn == <<"C", "o", "r", "n">>
KaleSpaced == <<" ", "k", "a", "l", "e", " ">>
RiceUpper == <<"R", "I", "C", "E">>
ProductNameInputs == {Corn, KaleSpaced, RiceUpper, Kale}
ImageResults == {"", "img"}
\* price = rate * quantity in the sale form, at a rate of 10
Price(q) == 10 * q

MkSale(id, cid, pid, q, st) ==
  [id |-> id, customerId |-> cid, productId |-> pid, quantity |-> q,
   totalAmount |-> Price(q), date |-> 1, paymentStatus |-> st]

\* ------------------------------------------------------ recordActivity
\* details strings, kept as a record of the template and what it embeds
SoldDetails(q) ==
  [prefix |-> "", text |-> "Sold units", qty |-> q, status |-> ""]
AdjustedDetails(q, st) ==
  [prefix |-> "", text |-> "Adjusted quantity, Status", qty |-> q, status |-> st]
RemovedDetails ==
  [prefix |-> "", text |-> "Transaction removed from ledger", qty |-> 0, status |-> ""]
RestoredDetails(d) ==
  [d EXCEPT !.prefix = "Restored archived transaction: "]

NewLog(id, action, entityName, customerName, amount, details, metadata) ==
  [id |-> id, action |-> action, details |-> details, entityName |-> entityName,
   customerName |-> customerName, amount |-> amount, metadata |-> metadata]

\* setLogs(prev => [newLog, ...prev])
RecordActivity(prev, newLog) == <<newLog>> \o prev

\* ----------------------------------------------------------------- addSale
AddSaleSales(prev, newSale) == <<newSale>> \o prev

\* addSale without the floor
AddSaleProducts_NoFloor(prev, newSale) ==
  [i \in 1..Len(prev) |->
     IF prev[i].id = newSale.productId
     THEN [prev[i] EXCEPT !.currentStock = @ - newSale.quantity]
     ELSE prev[i]]

AddSaleProducts(prev, newSale) ==
  [i \in 1..Len(prev) |->
     IF prev[i].id = newSale.productId
     THEN [prev[i] EXCEPT !.currentStock = Max(0, Fl(@ - newSale.quantity))]
     ELSE prev[i]]

AddSaleLog(id, prods, custs, newSale) ==
  NewLog(id, "Created",
         NameOr(FindById(prods, newSale.productId), Unknown),
         NameOr(FindById(custs, newSale.customerId), Retail),
         newSale.totalAmount, SoldDetails(newSale.quantity), NoMeta)

\* -------------------------------------------------------------- updateSale
\* updateSale that forgets to put the old quantity back
UpdateSaleProducts_NoRestore(prev, oldSale, updatedSale) ==
  [i \in 1..Len(prev) |->
     IF prev[i].id = updatedSale.productId
     THEN [prev[i] EXCEPT !.currentStock = Max(0, @ - updatedSale.quantity)]
     ELSE prev[i]]

UpdateSaleProducts(prev, oldSale, updatedSale) ==
  LET next1 == [i \in 1..Len(prev) |->
                  IF prev[i].id = oldSale.productId
                  THEN [prev[i] EXCEPT !.currentStock = Fl(@ + oldSale.quantity)]
                  ELSE prev[i]]
  IN [i \in 1..Len(next1) |->
        IF next1[i].id = updatedSale.productId
        THEN [next1[i] EXCEPT !.currentStock = Max(0, Fl(@ - updatedSale.quantity))]
        ELSE next1[i]]

UpdateSaleSales(prev, updatedSale) ==
  [i \in 1..Len(prev) |-> IF prev[i].id = updatedSale.id THEN updatedSale ELSE prev[i]]

UpdateSaleLog(id, prods, custs, updatedSale) ==
  NewLog(id, "Updated",
         NameOr(FindById(prods, updatedSale.productId), Unknown),
         NameOr(FindById(custs, updatedSale.customerId), Unknown),
         updatedSale.totalAmount,
         AdjustedDetails(updatedSale.quantity, updatedSale.paymentStatus), NoMeta)

\* -------------------------------------------------------------- deleteSale
\* deleteSale that records no snapshot
DeleteSaleLog_NoMeta(id, prods, custs, saleToDelete) ==
  NewLog(id, "Deleted",
         NameOr(FindById(prods, saleToDelete.productId), Unknown),
         NameOr(FindById(custs, saleToDelete.customerId), Unknown),
         saleToDelete.totalAmount, RemovedDetails, NoMeta)

DeleteSaleLog(id, prods, custs, saleToDelete) ==
  NewLog(id, "Deleted",
         NameOr(FindById(prods, saleToDelete.productId), Unknown),
         NameOr(FindById(custs, saleToDelete.customerId), Unknown),
         saleToDelete.totalAmount, RemovedDetails, <<saleToDelete>>)

DeleteSaleSales(prev, id) == SelectSeq(prev, LAMBDA s : s.id # id)

\* ------------------------------------------------------------- restoreSale
\* restoreSale without the already-present check
RestoreSaleGuard_Never(curSales, saleToRestore) == FALSE

RestoreSaleGuard(curSales, saleToRestore) ==
  \E i \in 1..Len(curSales) : curSales[i].id = saleToRestore.id

RestoreSaleSales(prev, saleToRestore) == <<saleToRestore>> \o prev

\* restoreSale that leaves the stock alone
RestoreSaleProducts_Keep(prev, saleToRestore) == prev

RestoreSaleProducts(prev, saleToRestore) ==
  [i \in 1..Len(prev) |->
     IF prev[i].id = saleToRestore.productId
     THEN [prev[i] EXCEPT !.currentStock = Max(0, Fl(@ - saleToRestore.quantity))]
     ELSE prev[i]]

\* restoreSale that leaves the source log in the list
RestoreSaleLogs_Keep(prev, log) == prev

RestoreSaleLogs(prev, log) == SelectSeq(prev, LAMBDA l : l.id # log.id)

RestoreSaleLog(id, log) ==
  NewLog(id, "Created", log.entityName, log.customerName, log.amount,
         RestoredDetails(log.details), NoMeta)

\* ------------------------------------------------- customers and products
UpdateCustomerCustomers(prev, updatedCustomer) ==
  [i \in 1..Len(prev) |->
     IF prev[i].id = updatedCustomer.id THEN updatedCustomer ELSE prev[i]]

\* updateCustomer that renames in every log
UpdateCustomerLogs_All(prev, oldName, newName) ==
  [i \in 1..Len(prev) |-> [prev[i] EXCEPT !.customerName = newName]]

UpdateCustomerLogs(prev, oldName, newName) ==
  [i \in 1..Len(prev) |->
     IF prev[i].customerName = oldName
     THEN [prev[i] EXCEPT !.customerName = newName]
     ELSE prev[i]]

DeleteCustomerCustomers(prev, id) == SelectSeq(prev, LAMBDA c : c.id # id)
\* deleteCustomer without the cascade
DeleteCustomerSales_None(prev, id) == prev

DeleteCustomerSales(prev, id) == SelectSeq(prev, LAMBDA s : s.customerId # id)

DeleteProductProducts(prev, id) == SelectSeq(prev, LAMBDA p : p.id # id)
\* deleteProduct whose cascade drops the whole ledger
DeleteProductSales_All(prev, id) == <<>>

DeleteProductSales(prev, id) == SelectSeq(prev, LAMBDA s : s.productId # id)

\* addProduct comparing the names as typed
IsDuplicate_Exact(prods, newProduct) ==
  \E i \in 1..Len(prods) : prods[i].name = newProduct.name

IsDuplicate(prods, newProduct) ==
  \E i \in 1..Len(prods) : NormName(prods[i].name) = NormName(newProduct.name)

AddProductProducts(prev, newProduct) ==
  Append(prev, [newProduct EXCEPT !.isGeneratingImage = TRUE])

\* imageUrl: imageUrl || undefined ("" stands for undefined and for null)
AddProductImageDone(prev, id, imageUrl) ==
  [i \in 1..Len(prev) |->
     IF prev[i].id = id
     THEN [prev[i] EXCEPT !.imageUrl = imageUrl, !.isGeneratingImage = FALSE]
     ELSE prev[i]]

\* ------------------------------------------------------------ bulk imports
\* ProductManager.handleCsvImport: the products of the lines after the header
\* (names[i] is the trimmed name column of line i), skipping empty names and
\* names the catalog already has; ids are Date.now() + i.
RECURSIVE CsvNewProducts(_, _, _, _)
CsvNewProducts(names, i, existingNames, stamp) ==
  IF i > Len(names) THEN <<>>
  ELSE LET prodName == names[i]
           rest == CsvNewProducts(names, i + 1, existingNames, stamp)
       IN IF prodName = <<>> \/ ToLowerCase(prodName) \in existingNames
          THEN rest
          ELSE <<[id |-> Pid(stamp + i - 1), name |-> prodName, currentStock |-> 2,
                  isGeneratingImage |-> FALSE, imageUrl |-> ""]>> \o rest

ExistingNames(prods) == {ToLowerCase(prods[i].name) : i \in 1..Len(prods)}

\* addProductsBulk that leaves the products as they came
ProdsWithLoading_AsGiven(newProducts) == newProducts

\* addProductsBulk: newProducts.map(p => ({ ...p, isGeneratingImage: true }))
ProdsWithLoading(newProducts) ==
  [i \in 1..Len(newProducts) |-> [newProducts[i] EXCEPT !.isGeneratingImage = TRUE]]

\* bulkImportSales: (row.Status || 'Paid').trim().toLowerCase() === 'paid'
FinalStatus(status) ==
  LET rawStatus == ToLowerCase(Trim(IF status = <<>> THEN <<"P", "a", "i", "d">> ELSE status))
  IN IF rawStatus = <<"p", "a", "i", "d">> THEN "Paid" ELSE "Pending"

\* Array.prototype.find by lower-cased trimmed name
FindByName(seq, name) ==
  LET hits == SelectSeq(seq, LAMBDA x : NormName(x.name) = NormName(name))
  IN IF hits = <<>> THEN <<>> ELSE <<Head(hits)>>

\* product ids numbered by the row index alone
ImportPid_NoStamp(stamp, index) == Pid(index + 1)

\* ids of the records one import synthesizes: 'CUST-' / 'PROD-' / 'SALE-' +
\* Date.now() + '-' + index (customers are numbered after the three
\* customers of the alphabet, sales by the number itself)
ImportPid(stamp, index) == Pid(stamp + index)

\* product.currentStock = Math.max(0, product.currentStock - row.Quantity)
ImportStock(stock, quantity) == Max(0, Fl(stock - quantity))

\* bulkImportSales matching the customers by the name as written
ImportFindCustomer_Exact(currentCustomers, name) ==
  LET hits == SelectSeq(currentCustomers, LAMBDA x : x.name = name)
  IN IF hits = <<>> THEN <<>> ELSE <<Head(hits)>>

ImportFindCustomer(currentCustomers, name) == FindByName(currentCustomers, name)

\* One pass of the forEach of bulkImportSales over the row at position k
\* (index k - 1), on the three lists built so far.
ImportRow(acc, row, k, saleStamp, prodStamp) ==
  LET index == k - 1
      foundC == ImportFindCustomer(acc.customers, row.Customer)
      customer == IF foundC # <<>> THEN foundC[1]
                  ELSE [id |-> Cid(3 + saleStamp + index), name |-> row.Customer,
                        phone |-> ""]
      customers1 == IF foundC # <<>> THEN acc.customers
                    ELSE Append(acc.customers, customer)
      foundP == FindByName(acc.products, row.Product)
      product == IF foundP # <<>> THEN foundP[1]
                 ELSE [id |-> ImportPid(prodStamp, index), name |-> row.Product,
                       currentStock |-> 0, isGeneratingImage |-> TRUE, imageUrl |-> ""]
      products1 == IF foundP # <<>> THEN acc.products ELSE Append(acc.products, product)
      sale == [id |-> saleStamp + index, customerId |-> customer.id,
               productId |-> product.id, quantity |-> row.Quantity,
               totalAmount |-> row.Amount, date |-> 1,
               paymentStatus |-> FinalStatus(row.Status)]
  IN [sales |-> Append(acc.sales, sale),
      customers |-> customers1,
      products |-> [i \in 1..Len(products1) |->
                      IF products1[i].id = product.id
                      THEN [products1[i] EXCEPT
                              !.currentStock = ImportStock(@, row.Quantity)]
                      ELSE products1[i]]]

RECURSIVE ImportRows(_, _, _, _, _)
ImportRows(acc, parsedRows, k, saleStamp, prodStamp) ==
  IF k > Len(parsedRows) THEN acc
  ELSE ImportRows(ImportRow(acc, parsedRows[k], k, saleStamp, prodStamp),
                  parsedRows, k + 1, saleStamp, prodStamp)

\* newSales, currentProducts and currentCustomers after the forEach
BulkImport(parsedRows, saleStamp, prodStamp) ==
  ImportRows([sales |-> <<>>, customers |-> <<>>, products |-> <<>>],
             parsedRows, 1, saleStamp, prodStamp)

\* updateProduct
UpdateProductProducts(prev, updatedProduct) ==
  [i \in 1..Len(prev) |->
     IF prev[i].id = updatedProduct.id THEN updatedProduct ELSE prev[i]]

\* deleteLog that clears the list
DeleteLogLogs_All(prev, id) == <<>>

\* deleteLog
DeleteLogLogs(prev, id) == SelectSeq(prev, LAMBDA l : l.id # id)

\* ------------------------------------------------- snapshots and session
\* user: null before login and after logout
NoUser == ""
Uid == "u1"

\* the initial values of the four configuration scalars ("" is null)
DefaultConfig ==
  [themeMode |-> "system", dateSystem |-> "BS", currencyCode |-> "USD",
   customCurrency |-> ""]

\* dataToSave of triggerSync (lastUpdated, a time stamp, is left out)
DataToSave(s, c, p, e, l, lg, cfg) ==
  [sales |-> s, customers |-> c, products |-> p, expenses |-> e,
   liabilities |-> l, logs |-> lg, themeMode |-> cfg.themeMode,
   dateSystem |-> cfg.dateSystem, currencyCode |-> cfg.currencyCode,
   customCurrency |-> cfg.customCurrency]

\* the in-memory state as a snapshot
CurrentData ==
  DataToSave(sales, customers, products, expenses, liabilities, logs, config)

\* the dependency list of the sync effect
Deps == <<CurrentData, user, isOfflineMode>>

\* no debounce timer is scheduled
NoTimer == <<>>

\* setTimeout(triggerSync, 1000)
DebounceMs == 1000
\* setTimeout(() => setSaveStatus('idle'), 1000) after a local write
OfflineIdleMs == 1000
\* setTimeout(() => setSaveStatus('idle'), 2000) after a remote write
SavedIdleMs == 2000
\* the step of the clock: half a debounce window
TickMs == DebounceMs \div 2

Min(a, b) == IF a <= b THEN a ELSE b

\* ------------------------------------------------------------------- state
NewProductRecord(id, name, stock) ==
  [id |-> id, name |-> name, currentStock |-> stock,
   isGeneratingImage |-> FALSE, imageUrl |-> ""]

StockOf(prods, pid) ==
  LET f == FindById(prods, pid) IN IF f = <<>> THEN 0 ELSE f[1].currentStock

\* The store as hydrated from a persisted snapshot: a small catalog (Kale
\* with 3 in stock, Rice with 1), two customers, and one sale of an earlier
\* session (id 0) with its 'Created' log (id 0).
InitStock == [p \in ProductIds |-> IF p = P1 THEN 3 ELSE IF p = P2 THEN 1 ELSE 2]

InitSale == MkSale(0, C1id, P1, 1, "Paid")

\* The snapshot the session was hydrated from.
InitData ==
  DataToSave(<<InitSale>>,
             <<[id |-> C1id, name |-> Ann, phone |-> ""],
               [id |-> C2id, name |-> Bob, phone |-> ""]>>,
             <<NewProductRecord(P1, Kale, InitStock[P1]),
               NewProductRecord(P2, Rice, InitStock[P2])>>,
             <<>>, <<>>,
             <<NewLog(0, "Created", Kale, Ann, InitSale.totalAmount,
                      SoldDetails(InitSale.quantity), NoMeta)>>,
             DefaultConfig)

InitCounters ==
  /\ imageTasks = {}
  /\ nextSaleId = 1
  /\ nextLogId = 1
  /\ nextProductId = 3
  /\ last = [op |-> "init"]
  /\ stock0 = InitStock
  /\ debt = [p \in ProductIds |-> 0]
  /\ clamped = [p \in ProductIds |-> FALSE]

\* An offline session at rest: hydrated from local storage, the hydrated
\* state flushed and the status back to idle.
Init ==
  /\ sales = InitData.sales
  /\ customers = InitData.customers
  /\ products = InitData.products
  /\ logs = InitData.logs
  /\ expenses = InitData.expenses
  /\ liabilities = InitData.liabilities
  /\ config = DefaultConfig
  /\ InitCounters
  /\ user = NoUser
  /\ isOfflineMode = TRUE
  /\ firstSync = FALSE
  /\ saveStatus = "idle"
  /\ syncTimer = NoTimer
  /\ idleTimers = {}
  /\ writes = <<>>
  /\ localStore = <<InitData>>
  /\ remoteDoc = <<>>
  /\ hydratedFor = <<NoUser, TRUE>>
  /\ syncedDeps = <<InitData, NoUser, TRUE>>
  /\ listening = "off"
  /\ burst = [elapsed |-> DebounceMs, changes |-> 0, flushes |-> 0, edited |-> FALSE]

\* Bookkeeping of the stock history of each product: inc[p] is what the call
\* adds back to p, dec[p] what it then takes off before the floor.
StockHistory(inc, dec) ==
  /\ debt' = [p \in ProductIds |-> debt[p] + dec[p] - inc[p]]
  /\ clamped' = [p \in ProductIds |->
                   clamped[p] \/ StockOf(products, p) + inc[p] - dec[p] < 0]
  /\ UNCHANGED stock0

Only(pid, q) == [p \in ProductIds |-> IF p = pid THEN q ELSE 0]
Nothing == [p \in ProductIds |-> 0]

\* ----------------------------------------------------------------- actions
AddSale(newSale) ==
  /\ nextLogId <= MaxLogs
  /\ newSale.id = nextSaleId
  /\ sales' = AddSaleSales(sales, newSale)
  /\ products' = AddSaleProducts(products, newSale)
  /\ logs' = RecordActivity(logs, AddSaleLog(nextLogId, products, customers, newSale))
  /\ nextSaleId' = nextSaleId + 1
  /\ nextLogId' = nextLogId + 1
  /\ last' = [op |-> "addSale", sale |-> newSale]
  /\ StockHistory(Nothing, Only(newSale.productId, newSale.quantity))
  /\ UNCHANGED <<customers, imageTasks, nextProductId, extVars>>

UpdateSale(updatedSale) ==
  LET oldSale == FindById(sales, updatedSale.id)
  IN IF oldSale = <<>>
     THEN /\ last' = [op |-> "updateSale", sale |-> updatedSale]
          /\ UNCHANGED <<storeVars, idVars, ghostVars, extVars>>
     ELSE /\ nextLogId <= MaxLogs
          /\ products' = UpdateSaleProducts(products, oldSale[1], updatedSale)
          /\ sales' = UpdateSaleSales(sales, updatedSale)
          /\ logs' = RecordActivity(logs,
                        UpdateSaleLog(nextLogId, products, customers, updatedSale))
          /\ nextLogId' = nextLogId + 1
          /\ last' = [op |-> "updateSale", sale |-> updatedSale]
          /\ StockHistory(Only(oldSale[1].productId, oldSale[1].quantity),
                          Only(updatedSale.productId, updatedSale.quantity))
          /\ UNCHANGED <<customers, imageTasks, nextSaleId, nextProductId, extVars>>

DeleteSale(id) ==
  LET saleToDelete == FindById(sales, id)
  IN /\ saleToDelete # <<>> => nextLogId <= MaxLogs
     /\ logs' = IF saleToDelete # <<>>
                THEN RecordActivity(logs,
                        DeleteSaleLog(nextLogId, products, customers, saleToDelete[1]))
                ELSE logs
     /\ nextLogId' = IF saleToDelete # <<>> THEN nextLogId + 1 ELSE nextLogId
     /\ sales' = DeleteSaleSales(sales, id)
     /\ last' = [op |-> "deleteSale", id |-> id]
     /\ UNCHANGED <<customers, products, imageTasks, nextSaleId, nextProductId, ghostVars, extVars>>

RestoreSale(log) ==
  IF log.metadata = NoMeta
  THEN /\ last' = [op |-> "restoreSale", log |-> log, alerted |-> FALSE]
       /\ UNCHANGED <<storeVars, idVars, ghostVars, extVars>>
  ELSE LET saleToRestore == log.metadata[1]
       IN IF RestoreSaleGuard(sales, saleToRestore)
          THEN /\ last' = [op |-> "restoreSale", log |-> log, alerted |-> TRUE]
               /\ UNCHANGED <<storeVars, idVars, ghostVars, extVars>>
          ELSE /\ nextLogId <= MaxLogs
               /\ sales' = RestoreSaleSales(sales, saleToRestore)
               /\ products' = RestoreSaleProducts(products, saleToRestore)
               /\ logs' = RecordActivity(RestoreSaleLogs(logs, log),
                                         RestoreSaleLog(nextLogId, log))
               /\ nextLogId' = nextLogId + 1
               /\ last' = [op |-> "restoreSale", log |-> log, alerted |-> FALSE]
               /\ StockHistory(Nothing,
                               Only(saleToRestore.productId, saleToRestore.quantity))
               /\ UNCHANGED <<customers, imageTasks, nextSaleId, nextProductId, extVars>>

\* The logs a caller can hand to restoreSale: those of the list, and the one
\* the previous restoreSale call was given (restoring twice in a row).
RestorableLogs ==
  Range(logs) \cup (IF last.op = "restoreSale" THEN {last.log} ELSE {})

UpdateCustomer(updatedCustomer) ==
  LET oldCustomer == FindById(customers, updatedCustomer.id)
  IN /\ customers' = UpdateCustomerCustomers(customers, updatedCustomer)
     /\ logs' = IF oldCustomer # <<>> /\ oldCustomer[1].name # updatedCustomer.name
                THEN UpdateCustomerLogs(logs, oldCustomer[1].name, updatedCustomer.name)
                ELSE logs
     /\ last' = [op |-> "updateCustomer", customer |-> updatedCustomer]
     /\ UNCHANGED <<sales, products, imageTasks, idVars, ghostVars, extVars>>

DeleteCustomer(id) ==
  /\ customers' = DeleteCustomerCustomers(customers, id)
  /\ sales' = DeleteCustomerSales(sales, id)
  /\ last' = [op |-> "deleteCustomer", id |-> id]
  /\ UNCHANGED <<products, logs, imageTasks, idVars, ghostVars, extVars>>

DeleteProduct(id) ==
  /\ products' = DeleteProductProducts(products, id)
  /\ sales' = DeleteProductSales(sales, id)
  /\ last' = [op |-> "deleteProduct", id |-> id]
  /\ UNCHANGED <<customers, logs, imageTasks, idVars, ghostVars, extVars>>

AddProduct(newProduct) ==
  /\ Pid(nextProductId) \in ProductIds
  /\ newProduct.id = Pid(nextProductId)
  /\ last' = [op |-> "addProduct", product |-> newProduct]
  /\ IF IsDuplicate(products, newProduct)
     THEN UNCHANGED <<storeVars, idVars, ghostVars, extVars>>
     ELSE /\ products' = AddProductProducts(products, newProduct)
          /\ imageTasks' = imageTasks \cup {newProduct.id}
          /\ nextProductId' = nextProductId + 1
          /\ UNCHANGED <<sales, customers, logs, nextSaleId, nextLogId, ghostVars, extVars>>

\* generateProductImage resolves (with a data URL, or null on failure) and
\* the continuation of addProduct patches the product.
ImageDone(id, imageUrl) ==
  /\ id \in imageTasks
  /\ products' = AddProductImageDone(products, id, imageUrl)
  /\ imageTasks' = imageTasks \ {id}
  /\ last' = [op |-> "imageDone", id |-> id]
  /\ UNCHANGED <<sales, customers, logs, idVars, ghostVars, extVars>>

\* updateProduct
UpdateProduct(updatedProduct) ==
  /\ products' = UpdateProductProducts(products, updatedProduct)
  /\ last' = [op |-> "updateProduct", product |-> updatedProduct]
  /\ UNCHANGED <<sales, customers, logs, imageTasks, idVars, ghostVars, extVars>>

\* ProductManager.handleApplyRename: the row's product under the name typed
\* into the rename box, unless it is empty or another product has it.
HandleApplyRename(product, tempNewName) ==
  LET trimmed == Trim(tempNewName)
      isDuplicate == \E i \in 1..Len(products) :
                       /\ products[i].id # product.id
                       /\ ToLowerCase(products[i].name) = ToLowerCase(trimmed)
  IN IF trimmed = <<>> \/ isDuplicate
     THEN /\ last' = [op |-> "renameRejected", product |-> product]
          /\ UNCHANGED <<storeVars, idVars, ghostVars, extVars>>
     ELSE UpdateProduct([product EXCEPT !.name = trimmed])

\* ProductManager.handleUpdateAsset: the product as edited in the dialog.
HandleUpdateAsset(editingProduct) == UpdateProduct(editingProduct)

\* deleteLog
DeleteLog(id) ==
  /\ logs' = DeleteLogLogs(logs, id)
  /\ last' = [op |-> "deleteLog", id |-> id]
  /\ UNCHANGED <<sales, customers, products, imageTasks, idVars, ghostVars, extVars>>

\* addExpense, addLiability
AddExpense(exp) ==
  /\ Len(expenses) < MaxEntries
  /\ expenses' = <<exp>> \o expenses
  /\ last' = [op |-> "addExpense", expense |-> exp]
  /\ UNCHANGED <<storeVars, idVars, ghostVars, liabilities, config, syncVars>>

AddLiability(lib) ==
  /\ Len(liabilities) < MaxEntries
  /\ liabilities' = <<lib>> \o liabilities
  /\ last' = [op |-> "addLiability", liability |-> lib]
  /\ UNCHANGED <<storeVars, idVars, ghostVars, expenses, config, syncVars>>

\* updateExpense, deleteExpense
UpdateExpense(updatedExp) ==
  /\ expenses' = [i \in 1..Len(expenses) |->
                    IF expenses[i].id = updatedExp.id THEN updatedExp ELSE expenses[i]]
  /\ last' = [op |-> "updateExpense", expense |-> updatedExp]
  /\ UNCHANGED <<storeVars, idVars, ghostVars, liabilities, config, syncVars>>

DeleteExpense(id) ==
  /\ expenses' = SelectSeq(expenses, LAMBDA e : e.id # id)
  /\ last' = [op |-> "deleteExpense", id |-> id]
  /\ UNCHANGED <<storeVars, idVars, ghostVars, liabilities, config, syncVars>>

\* updateLiability: the record with that id is replaced by updatedLib
UpdateLiability(updatedLib) ==
  /\ liabilities' = [i \in 1..Len(liabilities) |->
                       IF liabilities[i].id = updatedLib.id THEN updatedLib
                       ELSE liabilities[i]]
  /\ last' = [op |-> "updateLiability", liability |-> updatedLib]
  /\ UNCHANGED <<storeVars, idVars, ghostVars, expenses, config, syncVars>>

\* settleLiability: { ...lib, status: 'Settled' }
SettleLiability(id) ==
  /\ liabilities' = [i \in 1..Len(liabilities) |->
                       IF liabilities[i].id = id
                       THEN [liabilities[i] EXCEPT !.status = "Settled"]
                       ELSE liabilities[i]]
  /\ last' = [op |-> "settleLiability", id |-> id]
  /\ UNCHANGED <<storeVars, idVars, ghostVars, expenses, config, syncVars>>

\* addCustomer
AddCustomer(newCustomer) ==
  /\ customers' = <<newCustomer>> \o customers
  /\ last' = [op |-> "addCustomer", customer |-> newCustomer]
  /\ UNCHANGED <<sales, products, logs, imageTasks, idVars, ghostVars, extVars>>

\* updateStock
UpdateStock(productId, newStock) ==
  /\ products' = [i \in 1..Len(products) |->
                    IF products[i].id = productId
                    THEN [products[i] EXCEPT !.currentStock = newStock]
                    ELSE products[i]]
  /\ last' = [op |-> "updateStock", id |-> productId]
  /\ UNCHANGED <<sales, customers, logs, imageTasks, idVars, ghostVars, extVars>>

\* a state setter that is handed the value of the render instead of the
\* value the updaters queued before it have left
UpdaterPrev_Rendered(queued, rendered) == rendered

\* setSales(prev => ...), setProducts(prev => ...), setLogs(prev => ...):
\* prev is the value left by the updaters queued earlier in the same event
UpdaterPrev(queued, rendered) == queued

\* billItems.forEach(item => onAddSale({...})) from item k on: addSale is
\* called once per line item, each call queueing its three updaters; the
\* names of the log are looked up in the products and customers of the
\* render.
RECURSIVE CheckoutFrom(_, _, _, _)
CheckoutFrom(acc, selectedCustomerId, billItems, k) ==
  IF k > Len(billItems) THEN acc
  ELSE LET item == billItems[k]
           newSale == MkSale(nextSaleId + k - 1, selectedCustomerId, item.productId,
                             item.quantity, "Paid")
       IN CheckoutFrom(
            [sales |-> AddSaleSales(UpdaterPrev(acc.sales, sales), newSale),
             products |-> AddSaleProducts(UpdaterPrev(acc.products, products), newSale),
             logs |-> RecordActivity(UpdaterPrev(acc.logs, logs),
                        AddSaleLog(nextLogId + k - 1, products, customers, newSale))],
            selectedCustomerId, billItems, k + 1)

\* BillingManager.handleProcessCheckout (<<>> is the empty selection; stock0,
\* debt and clamped follow the single sale operations only)
HandleProcessCheckout(selectedCustomerId, billItems) ==
  IF selectedCustomerId = <<>> \/ billItems = <<>>
  THEN /\ last' = [op |-> "checkoutRejected"]
       /\ UNCHANGED <<storeVars, idVars, ghostVars, extVars>>
  ELSE LET r == CheckoutFrom([sales |-> sales, products |-> products, logs |-> logs],
                             selectedCustomerId, billItems, 1)
       IN /\ nextLogId + Len(billItems) - 1 <= MaxLogs
          /\ sales' = r.sales
          /\ products' = r.products
          /\ logs' = r.logs
          /\ nextSaleId' = nextSaleId + Len(billItems)
          /\ nextLogId' = nextLogId + Len(billItems)
          /\ last' = [op |-> "checkout", customerId |-> selectedCustomerId,
                      items |-> billItems]
          /\ UNCHANGED <<customers, imageTasks, nextProductId, ghostVars, extVars>>

\* triggerImageGeneration, up to the await: the product is flagged and an
\* image call is pending for it. (The call's continuation keeps the old
\* image when the call returns null; for a product without an image, the
\* case the sessions here exercise, that is what ImageDone does.)
TriggerImageGeneration(productId) ==
  IF FindById(products, productId) = <<>>
  THEN /\ last' = [op |-> "triggerImageRejected", id |-> productId]
       /\ UNCHANGED <<storeVars, idVars, ghostVars, extVars>>
  ELSE /\ products' = [i \in 1..Len(products) |->
                         IF products[i].id = productId
                         THEN [products[i] EXCEPT !.isGeneratingImage = TRUE]
                         ELSE products[i]]
       /\ imageTasks' = imageTasks \cup {productId}
       /\ last' = [op |-> "triggerImageGeneration", id |-> productId]
       /\ UNCHANGED <<sales, customers, logs, idVars, ghostVars, extVars>>

\* setThemeMode, handed to the settings screen as it is
SetThemeMode(mode) ==
  /\ config' = [config EXCEPT !.themeMode = mode]
  /\ last' = [op |-> "setThemeMode", mode |-> mode]
  /\ UNCHANGED <<storeVars, idVars, ghostVars, expenses, liabilities, syncVars>>

\* addProductsBulk
AddProductsBulk(newProducts) ==
  LET prodsWithLoading == ProdsWithLoading(newProducts)
  IN /\ sales' = <<>>
     /\ customers' = <<>>
     /\ expenses' = <<>>
     /\ liabilities' = <<>>
     /\ logs' = <<>>
     /\ products' = prodsWithLoading
     /\ imageTasks' = imageTasks \cup {prodsWithLoading[i].id : i \in 1..Len(prodsWithLoading)}
     /\ last' = [op |-> "addProductsBulk", products |-> newProducts]
     /\ UNCHANGED <<config, syncVars, nextSaleId, nextLogId, ghostVars>>

\* ProductManager.handleCsvImport on a file whose name column reads names
HandleCsvImport(names) ==
  LET newProducts == CsvNewProducts(names, 1, ExistingNames(products), nextProductId)
  IN /\ nextProductId + Len(names) - 1 <= MaxStamp
     /\ nextProductId' = nextProductId + Len(names)
     /\ IF newProducts # <<>>
        THEN AddProductsBulk(newProducts)
        ELSE /\ last' = [op |-> "csvRejected"]
             /\ UNCHANGED <<storeVars, nextSaleId, nextLogId, ghostVars, extVars>>

\* bulkImportSales
BulkImportSales(parsedRows) ==
  LET r == BulkImport(parsedRows, nextSaleId, nextProductId)
  IN /\ nextProductId + Len(parsedRows) - 1 <= MaxStamp
     /\ expenses' = <<>>
     /\ liabilities' = <<>>
     /\ logs' = <<>>
     /\ sales' = r.sales
     /\ products' = r.products
     /\ customers' = r.customers
     /\ nextSaleId' = nextSaleId + Len(parsedRows)
     /\ nextProductId' = nextProductId + Len(parsedRows)
     /\ last' = [op |-> "bulkImportSales", rows |-> parsedRows]
     /\ UNCHANGED <<imageTasks, nextLogId, ghostVars, config, syncVars>>

dataVars == <<sales, customers, products, expenses, liabilities, logs, config>>

\* Settings.handleSaveCustom: a custom currency needs its three fields; it is
\* stored and selected. (The Currency object is modelled by its code, typed
\* in upper case.)
HandleSaveCustom(tempCode, tempSymbol, tempName) ==
  IF tempCode = "" \/ tempSymbol = "" \/ tempName = ""
  THEN /\ last' = [op |-> "saveCustomRejected"]
       /\ UNCHANGED <<dataVars, imageTasks, idVars, ghostVars, syncVars>>
  ELSE /\ config' = [config EXCEPT !.customCurrency = tempCode,
                                    !.currencyCode = "CUSTOM"]
       /\ last' = [op |-> "saveCustom", code |-> tempCode]
       /\ UNCHANGED <<storeVars, idVars, ghostVars, expenses, liabilities,
                      syncVars>>

\* the fields of a snapshot
DataKeys == DOMAIN InitData

\* the test `if (data.key)`: the field exists and its value is truthy. Arrays
\* are truthy also when empty; of the scalars, null and the empty string
\* (both "") are not.
Truthy(data, key) ==
  /\ key \in DOMAIN data
  /\ key \in {"themeMode", "dateSystem", "currencyCode", "customCurrency"}
       => data[key] # ""

\* if (data.sales) setSales(data.sales); ... if (data.customCurrency)
\* setCustomCurrency(data.customCurrency): every field of the data that passes
\* the test replaces the state, the others keep their in-memory value.
SetFromData(data) ==
  LET Pick(key, current) == IF Truthy(data, key) THEN data[key] ELSE current
  IN /\ sales' = Pick("sales", sales)
     /\ customers' = Pick("customers", customers)
     /\ products' = Pick("products", products)
     /\ expenses' = Pick("expenses", expenses)
     /\ liabilities' = Pick("liabilities", liabilities)
     /\ logs' = Pick("logs", logs)
     /\ config' = [themeMode |-> Pick("themeMode", config.themeMode),
                   dateSystem |-> Pick("dateSystem", config.dateSystem),
                   currencyCode |-> Pick("currencyCode", config.currencyCode),
                   customCurrency |->
                     Pick("customCurrency", config.customCurrency)]

\* handleMasterRestore, with the parsed backup file
HandleMasterRestore(data) ==
  /\ SetFromData(data)
  /\ last' = [op |-> "masterRestore", data |-> data]
  /\ UNCHANGED <<imageTasks, idVars, ghostVars, syncVars>>

\* ------------------------------------------------ session and persistence

\* the main screens are rendered (not the login portal)
SessionActive == user # NoUser \/ isOfflineMode

\* a render was committed whose dependency list differs from the one the
\* sync effect last ran with: the effects run before anything else
EffectsPending == syncedDeps # Deps

\* The dependency list of a render after setters were called with freshly
\* parsed values (a stored snapshot, a document snapshot): the new arrays
\* are other objects than those of any earlier render, whatever they hold,
\* so the list differs from every list the sync effect has run with.
FreshDeps == <<[fresh |-> TRUE], user, isOfflineMode>>

\* onAuthStateChanged callback, AuthPortal onAuthenticated
AuthStateChanged(u) ==
  /\ user' = u
  /\ isOfflineMode' = IF u # NoUser THEN FALSE ELSE isOfflineMode
  /\ last' = [op |-> "authStateChanged"]
  /\ UNCHANGED <<storeVars, idVars, ghostVars, ledgerVars, firstSync, saveStatus,
                 syncTimer, idleTimers, writes, localStore, remoteDoc, hydratedFor,
                 syncedDeps, listening, burst>>

\* handleLogout (signOut calls the auth listener with null, which sets the
\* same two values)
HandleLogout ==
  /\ user' = NoUser
  /\ isOfflineMode' = FALSE
  /\ last' = [op |-> "logout"]
  /\ UNCHANGED <<storeVars, idVars, ghostVars, ledgerVars, firstSync, saveStatus,
                 syncTimer, idleTimers, writes, localStore, remoteDoc, hydratedFor,
                 syncedDeps, listening, burst>>

HandleSkipLogin ==
  /\ isOfflineMode' = TRUE
  /\ last' = [op |-> "skipLogin"]
  /\ UNCHANGED <<storeVars, idVars, ghostVars, ledgerVars, user, firstSync, saveStatus,
                 syncTimer, idleTimers, writes, localStore, remoteDoc, hydratedFor,
                 syncedDeps, listening, burst>>

\* a first-sync guard that never opens
FirstSyncGuard_Stuck(first) == TRUE

\* the sync effect's guard: if (firstSync.current)
FirstSyncGuard(first) == first

\* the sync effect without its cleanup: a scheduled flush stays
Reschedule_NoCleanup(scheduled, fresh) ==
  IF scheduled # NoTimer THEN scheduled ELSE fresh

\* return () => clearTimeout(timer), then setTimeout(triggerSync, 1000)
Reschedule(scheduled, fresh) == fresh

\* The passive effects of one commit, run with the values of that render:
\* the hydration effect when user or isOfflineMode changed (its setState
\* calls are rendered afterwards), then the sync effect (cleanup: the
\* scheduled flush is cancelled; then the early return, the first-sync
\* guard, or a new timer over triggerSync with this render's values).
RunEffects ==
  LET hydrate == hydratedFor # <<user, isOfflineMode>>
      stored == IF hydrate /\ isOfflineMode THEN localStore ELSE <<>>
      subscribe == hydrate /\ ~isOfflineMode /\ user # NoUser
      dataChanged == syncedDeps # <<>> /\ syncedDeps[1] # CurrentData
  IN /\ EffectsPending
     /\ hydratedFor' = <<user, isOfflineMode>>
     /\ listening' = IF hydrate THEN (IF subscribe THEN "due" ELSE "off") ELSE listening
     /\ IF stored # <<>> THEN SetFromData(stored[1]) ELSE UNCHANGED dataVars
     /\ IF user = NoUser /\ ~isOfflineMode
        THEN /\ firstSync' = firstSync
             /\ syncTimer' = NoTimer
        ELSE IF FirstSyncGuard(firstSync)
        THEN /\ firstSync' = FALSE
             /\ syncTimer' = NoTimer
        ELSE /\ firstSync' = firstSync
             /\ syncTimer' = Reschedule(syncTimer,
                                <<[left |-> DebounceMs, data |-> CurrentData,
                                   offline |-> isOfflineMode, uid |-> user]>>)
     /\ syncedDeps' = IF stored # <<>> THEN FreshDeps ELSE Deps
     /\ burst' = IF dataChanged
                 THEN [elapsed |-> 0,
                       changes |-> IF burst.flushes > 0 THEN 1
                                   ELSE Min(MaxBurst, burst.changes + 1),
                       flushes |-> 0,
                       edited |-> burst.edited \/ last.op \in {"addExpense", "addLiability", "setThemeMode"}]
                 ELSE burst
     /\ last' = [op |-> "effects"]
     /\ UNCHANGED <<imageTasks, idVars, ghostVars, user, isOfflineMode, saveStatus,
                    idleTimers, writes, localStore, remoteDoc>>

\* onSnapshot callback: the first snapshot of the user's document
OnSnapshot ==
  /\ ~EffectsPending
  /\ listening = "due"
  /\ listening' = "on"
  /\ IF remoteDoc # <<>>
     THEN SetFromData(remoteDoc[1]) /\ syncedDeps' = FreshDeps
     ELSE UNCHANGED <<dataVars, syncedDeps>>
  /\ last' = [op |-> "snapshot"]
  /\ UNCHANGED <<imageTasks, idVars, ghostVars, user, isOfflineMode, firstSync,
                 saveStatus, syncTimer, idleTimers, writes, localStore, remoteDoc,
                 hydratedFor, burst>>

\* onSnapshot callback for the document the app has just written: setDoc
\* puts the data (whose lastUpdated is new) in the SDK's local copy of the
\* document, and the listener is called with it before any other event.
OnSnapshotEcho ==
  /\ listening = "on"
  /\ last.op = "triggerSync"
  /\ ~last.offline
  /\ SetFromData(last.data)
  /\ syncedDeps' = FreshDeps
  /\ last' = [op |-> "snapshotEcho"]
  /\ UNCHANGED <<imageTasks, idVars, ghostVars, user, isOfflineMode, firstSync,
                 saveStatus, syncTimer, idleTimers, writes, localStore, remoteDoc,
                 hydratedFor, listening, burst>>

\* triggerSync, when its timer fires: up to the await
TriggerSync ==
  /\ ~EffectsPending
  /\ syncTimer # NoTimer
  /\ syncTimer[1].left = 0
  /\ LET c == syncTimer[1]
     IN /\ ~c.offline /\ c.uid # NoUser => Len(writes) < MaxInFlight
        /\ saveStatus' = IF c.offline THEN "offline" ELSE "saving"
        /\ IF c.offline
           THEN /\ localStore' = <<c.data>>
                /\ idleTimers' = idleTimers \cup {OfflineIdleMs}
                /\ UNCHANGED writes
           ELSE IF c.uid # NoUser
           THEN /\ writes' = Append(writes, [data |-> c.data, uid |-> c.uid])
                /\ UNCHANGED <<localStore, idleTimers>>
           ELSE UNCHANGED <<localStore, idleTimers, writes>>
        /\ last' = [op |-> "triggerSync", data |-> c.data, offline |-> c.offline]
  /\ syncTimer' = NoTimer
  /\ burst' = [burst EXCEPT !.flushes = Min(MaxBurst, @ + 1)]
  /\ UNCHANGED <<storeVars, idVars, ghostVars, ledgerVars, user, isOfflineMode, firstSync,
                 remoteDoc, hydratedFor, syncedDeps, listening>>

\* the write queue after a failed write, with the failed write sent again
AfterWrite_Retry(queue, ok) ==
  IF ok THEN Tail(queue) ELSE Append(Tail(queue), Head(queue))

\* syncToCloud has no retry: the write leaves the queue, failed or not
AfterWrite(queue, ok) == Tail(queue)

\* syncToCloud settles (setDoc resolved, or rejected and the catch logged
\* it), and triggerSync continues after the await
WriteDone(ok) ==
  /\ ~EffectsPending
  /\ writes # <<>>
  /\ remoteDoc' = IF ok THEN <<Head(writes).data>> ELSE remoteDoc
  /\ writes' = AfterWrite(writes, ok)
  /\ saveStatus' = "saved"
  /\ idleTimers' = idleTimers \cup {SavedIdleMs}
  /\ last' = [op |-> IF ok THEN "writeDone" ELSE "writeFailed"]
  /\ UNCHANGED <<storeVars, idVars, ghostVars, ledgerVars, user, isOfflineMode, firstSync,
                 syncTimer, localStore, hydratedFor, syncedDeps, listening, burst>>

\* () => setSaveStatus('idle')
IdleTimerFires ==
  /\ ~EffectsPending
  /\ 0 \in idleTimers
  /\ idleTimers' = idleTimers \ {0}
  /\ saveStatus' = "idle"
  /\ last' = [op |-> "idleTimer"]
  /\ UNCHANGED <<storeVars, idVars, ghostVars, ledgerVars, user, isOfflineMode, firstSync,
                 syncTimer, writes, localStore, remoteDoc, hydratedFor, syncedDeps,
                 listening, burst>>

\* Time passes: TickMs, when no timer is due.
Tick ==
  /\ ~EffectsPending
  /\ syncTimer # NoTimer \/ idleTimers # {}
  /\ syncTimer # NoTimer => syncTimer[1].left > 0
  /\ 0 \notin idleTimers
  /\ syncTimer' = IF syncTimer = NoTimer THEN NoTimer
                  ELSE <<[syncTimer[1] EXCEPT !.left = @ - TickMs]>>
  /\ idleTimers' = {t - TickMs : t \in idleTimers}
  /\ burst' = [burst EXCEPT !.elapsed = Min(DebounceMs, @ + TickMs)]
  /\ last' = [op |-> "tick"]
  /\ UNCHANGED <<storeVars, idVars, ghostVars, ledgerVars, user, isOfflineMode, firstSync,
                 saveStatus, writes, localStore, remoteDoc, hydratedFor, syncedDeps,
                 listening>>

\* ---------------------------------------------------------- specifications
\* The sale ledger: the four sale operations.
DoAddSale ==
  \E cid \in {C1id, C3id}, pid \in {P1, P2}, q \in Quantities :
    AddSale(MkSale(nextSaleId, cid, pid, q, "Paid"))

\* Ids of the sales created so far: those in the ledger and those removed.
EverSaleIds == 0..(nextSaleId - 1)

\* The edits of the customer ledger: the payment-status toggle, and the edit
\* dialog changing the product or the quantity (the amount follows).
Toggled(st) == IF st = "Paid" THEN "Pending" ELSE "Paid"

SaleEdits(old) ==
  {[old EXCEPT !.paymentStatus = Toggled(@)]}
  \cup {[old EXCEPT !.productId = pid, !.quantity = q, !.totalAmount = Price(q)] :
          pid \in {P1, P2}, q \in Quantities}

\* A sale the caller still holds after it left the ledger.
StaleSale(id) == MkSale(id, C1id, P1, 1, "Paid")

DoUpdateSale ==
  \E id \in EverSaleIds :
    LET old == FindById(sales, id)
    IN \E updatedSale \in (IF old = <<>> THEN {StaleSale(id)} ELSE SaleEdits(old[1])) :
         UpdateSale(updatedSale)

DoDeleteSale == \E id \in EverSaleIds : DeleteSale(id)

DoRestoreSale == \E log \in RestorableLogs : RestoreSale(log)

Next ==
  \/ DoAddSale
  \/ DoUpdateSale
  \/ DoDeleteSale
  \/ DoRestoreSale

Spec == Init /\ [][Next]_vars

\* The customer operations, over a ledger that sales of Kale are added to.
DoAddSaleFor ==
  \E cid \in CustomerIds : AddSale(MkSale(nextSaleId, cid, P1, 1, "Paid"))

\* handleUpdateCustomerDetails: the selected customer with the name and the
\* phone of the edit dialog.
DoUpdateCustomer ==
  \E id \in CustomerIds, name \in CustomerNames :
    UpdateCustomer([id |-> id, name |-> name, phone |-> "98"])

DoDeleteCustomer == \E id \in CustomerIds : DeleteCustomer(id)

NextCustomers ==
  \/ DoAddSaleFor
  \/ DoUpdateCustomer
  \/ DoDeleteCustomer

SpecCustomers == Init /\ [][NextCustomers]_vars

\* The product operations, over a ledger that sales to Ann are added to.
DoAddSaleOf ==
  \E pid \in {P1, P2} : AddSale(MkSale(nextSaleId, C1id, pid, 1, "Paid"))

DoDeleteProduct == \E id \in ProductIds : DeleteProduct(id)

DoAddProduct ==
  \E name \in ProductNameInputs :
    AddProduct(NewProductRecord(Pid(nextProductId), name, InitStock[Pid(nextProductId)]))

DoImageDone == \E id \in imageTasks, imageUrl \in ImageResults : ImageDone(id, imageUrl)

NextProducts ==
  \/ DoAddSaleOf
  \/ DoDeleteProduct
  \/ DoAddProduct
  \/ DoImageDone

SpecProducts == Init /\ [][NextProducts]_vars

\* The session-replacing imports, over books that expenses and liabilities
\* are entered into and a catalog that products are added to.
SeqsUpTo(S, n) == UNION {[1..k -> S] : k \in 1..n}

\* rows of sales files, as Dashboard.handleCsvUpload parses them
ImportRowSet ==
  {[Customer |-> Ann, Product |-> Kale, Quantity |-> 2, Amount |-> 20,
    Status |-> <<"P", "A", "I", "D">>],
   [Customer |-> <<"a", "n", "n">>, Product |-> <<"k", "a", "l", "e">>,
    Quantity |-> -1, Amount |-> 10, Status |-> <<"D", "u", "e">>],
   [Customer |-> Bob, Product |-> Kale, Quantity |-> 1, Amount |-> 10,
    Status |-> <<>>]}

\* a product file (its name column, trimmed by the CSV reader), a sales
\* file, an image call that returns, an expense, a liability, the theme
NextImport ==
  \/ \E names \in SeqsUpTo({Kale, <<"k", "a", "l", "e">>, Corn}, MaxRows) :
       HandleCsvImport(names)
  \/ \E parsedRows \in SeqsUpTo(ImportRowSet, MaxRows) : BulkImportSales(parsedRows)
  \/ DoImageDone
  \/ AddExpense([id |-> Len(expenses) + 1, amount |-> 5])
  \/ AddLiability([id |-> Len(liabilities) + 1, amount |-> 7, status |-> "Active"])
  \/ \E mode \in {"light", "dark"} : SetThemeMode(mode)

SpecImport == Init /\ [][NextImport]_vars

\* The catalog: the operations that add or rename products (the rename
\* dialog, the edit dialog, the two imports).
NextCatalog ==
  \/ DoAddProduct
  \/ \E i \in 1..Len(products), name \in {Corn, RiceUpper} :
       HandleApplyRename(products[i], name)
  \/ \E i \in 1..Len(products), name \in {Corn, RiceUpper} :
       HandleUpdateAsset([products[i] EXCEPT !.name = name])
  \/ \E names \in SeqsUpTo({Kale, <<"k", "a", "l", "e">>, Corn}, MaxRows) :
       HandleCsvImport(names)
  \/ \E parsedRows \in SeqsUpTo(ImportRowSet, MaxRows) : BulkImportSales(parsedRows)
  \/ DoImageDone

SpecCatalog == Init /\ [][NextCatalog]_vars

\* The activity log: the operations that add, consume, delete or replace
\* log entries: a sale of one Kale to Ann, the deletion of a listed sale,
\* the restore of a deleted one, the deletion of a log entry, a product
\* file with the lines Corn and kale, a sales file with two rows, and a
\* backup file exported from the hydrated books.
NextLogs ==
  \/ AddSale(MkSale(nextSaleId, C1id, P1, 1, "Paid"))
  \/ \E i \in 1..Len(sales) : DeleteSale(sales[i].id)
  \/ DoRestoreSale
  \/ \E i \in 1..Len(logs) : DeleteLog(logs[i].id)
  \/ HandleCsvImport(<<Corn, <<"k", "a", "l", "e">>>>)
  \/ BulkImportSales(<<[Customer |-> Bob, Product |-> Kale, Quantity |-> 1,
                        Amount |-> 10, Status |-> <<>>],
                       [Customer |-> Ann, Product |-> Kale, Quantity |-> 2,
                        Amount |-> 20, Status |-> <<"P", "A", "I", "D">>]>>)
  \/ HandleMasterRestore(InitData)

SpecLogs == Init /\ [][NextLogs]_vars

\* The whole ledger: every mutation operation of the entity store, on the
\* hydrated books. On the ledger screens (no expense or liability entered)
\* sales of Kale to Ann are added while both are on the books, a listed
\* sale has its payment status toggled, a sale is deleted (also one that has
\* left the ledger) or restored from its log; Cara is added as a customer,
\* Bob renamed, Ann deleted; Rice is renamed, Kale deleted or restocked (to
\* its first stock, or to a stock next to which one unit is below the
\* precision of a number).
\* On the finance screen (sales, customers, products and logs as hydrated)
\* the expense and the liability are entered, rewritten, deleted or settled.
NextLedger ==
  LET onLedger == expenses = <<>> /\ liabilities = <<>>
      onFinance == DataToSave(sales, customers, products, <<>>, <<>>, logs, config)
                     = InitData
  IN \/ (onLedger /\ FindById(customers, C1id) # <<>> /\ FindById(products, P1) # <<>>
           /\ AddSale(MkSale(nextSaleId, C1id, P1, 1, "Paid")))
     \/ (onLedger /\ \E i \in 1..Len(sales) :
                       UpdateSale([sales[i] EXCEPT !.paymentStatus = Toggled(@)]))
     \/ (onLedger /\ DoDeleteSale)
     \/ (onLedger /\ DoRestoreSale)
     \/ (onLedger /\ FindById(customers, C3id) = <<>>
           /\ AddCustomer([id |-> C3id, name |-> AnnLee, phone |-> ""]))
     \/ (onLedger /\ UpdateCustomer([id |-> C2id, name |-> AnnLee, phone |-> "98"]))
     \/ (onLedger /\ DeleteCustomer(C1id))
     \/ (onLedger /\ UpdateProduct(NewProductRecord(P2, Corn, InitStock[P2])))
     \/ (onLedger /\ \E newStock \in {InitStock[P1], 2 ^ MantissaBits + 2} :
                       UpdateStock(P1, newStock))
     \/ (onLedger /\ DeleteProduct(P1))
     \/ (onFinance /\ AddExpense([id |-> Len(expenses) + 1, amount |-> 5]))
     \/ (onFinance /\ \E i \in 1..Len(expenses) :
                        UpdateExpense([expenses[i] EXCEPT !.amount = 6]))
     \/ (onFinance /\ \E i \in 1..Len(expenses) : DeleteExpense(expenses[i].id))
     \/ (onFinance
           /\ AddLiability([id |-> Len(liabilities) + 1, amount |-> 7, status |-> "Active"]))
     \/ (onFinance /\ \E i \in 1..Len(liabilities), st \in {"Active", "Settled"} :
                        UpdateLiability([id |-> liabilities[i].id, amount |-> 8,
                                         status |-> st]))
     \/ (onFinance /\ \E i \in 1..Len(liabilities) : SettleLiability(liabilities[i].id))

SpecLedger == Init /\ [][NextLedger]_vars

\* The billing counter: bills of up to MaxItems line items of Kale and Rice
\* for a listed customer (or with no customer chosen, or no line), between
\* restocks of Kale and deletions of listed sales.
NextCheckout ==
  \/ \E cid \in {C1id, <<>>},
        billItems \in {<<>>} \cup SeqsUpTo([productId : {P1, P2}, quantity : Quantities],
                                          MaxItems) :
       HandleProcessCheckout(cid, billItems)
  \/ UpdateStock(P1, InitStock[P1])
  \/ \E i \in 1..Len(sales) : DeleteSale(sales[i].id)

SpecCheckout == Init /\ [][NextCheckout]_vars

\* The product images: a product is added, a product file or a sales file
\* is imported, the image button of a product without image (shown while
\* the product is not generating) is pressed, a product is deleted, and
\* every pending image call returns sooner or later.
NextImages ==
  \/ DoAddProduct
  \/ HandleCsvImport(<<Corn>>)
  \/ BulkImportSales(<<[Customer |-> Ann, Product |-> Kale, Quantity |-> 1,
                        Amount |-> 10, Status |-> <<>>]>>)
  \/ \E i \in 1..Len(products) :
       /\ products[i].imageUrl = "" /\ ~products[i].isGeneratingImage
       /\ TriggerImageGeneration(products[i].id)
  \/ DoDeleteProduct
  \/ DoImageDone

SpecImages ==
  /\ Init
  /\ [][NextImages]_vars
  /\ \A n \in 1..(2 * MaxStamp) :
       WF_vars(\E imageUrl \in ImageResults : ImageDone(Pid(n), imageUrl))

\* Backups: the settings screen saves a custom currency or switches the
\* theme, the finance screen books an expense, a sale is deleted, and a
\* backup file is restored: the first export of the books or the export of
\* a fresh installation, whole or cut down to some of its keys.
NextRestore ==
  \/ \E tempCode \in {"", "XAU"} : HandleSaveCustom(tempCode, "Au", "Gold")
  \/ \E mode \in {"light", "dark"} : SetThemeMode(mode)
  \/ (Len(expenses) < MaxEntries
        /\ AddExpense([id |-> Len(expenses) + 1, amount |-> 5]))
  \/ \E i \in 1..Len(sales) : DeleteSale(sales[i].id)
  \/ \E file \in {InitData,
                   DataToSave(<<>>, <<>>, <<>>, <<>>, <<>>, <<>>, DefaultConfig)},
        keys \in {DataKeys, {"sales", "logs"}, {"expenses", "themeMode"},
                  {"currencyCode", "customCurrency"}, {}} :
       HandleMasterRestore([key \in keys |-> file[key]])

SpecRestore == Init /\ [][NextRestore]_vars

\* The session and the persistence controller, from the mount of the
\* component: empty books, the offline flag as stored, a snapshot or nothing
\* in local storage and in the user's remote document.
InitMount ==
  /\ sales = <<>>
  /\ customers = <<>>
  /\ products = <<>>
  /\ logs = <<>>
  /\ expenses = <<>>
  /\ liabilities = <<>>
  /\ config = DefaultConfig
  /\ InitCounters
  /\ user = NoUser
  /\ isOfflineMode \in BOOLEAN
  /\ firstSync = TRUE
  /\ saveStatus = "idle"
  /\ syncTimer = NoTimer
  /\ idleTimers = {}
  /\ writes = <<>>
  /\ \/ localStore = <<InitData>> /\ remoteDoc = <<>>
     \/ localStore = <<>> /\ remoteDoc \in {<<>>, <<InitData>>}
  /\ hydratedFor = <<>>
  /\ syncedDeps = <<>>
  /\ listening = "off"
  /\ burst = [elapsed |-> DebounceMs, changes |-> 0, flushes |-> 0, edited |-> FALSE]

\* The login portal is shown while no session is active (login, or skip
\* to offline mode); the screens of a session enter an expense or switch
\* the theme; pending effects run before any later event.
NextSync ==
  \/ (~SessionActive /\ ~EffectsPending /\ AuthStateChanged(Uid))
  \/ (~SessionActive /\ ~EffectsPending /\ HandleSkipLogin)
  \/ RunEffects
  \/ OnSnapshot
  \/ (SessionActive /\ ~EffectsPending
        /\ AddExpense([id |-> Len(expenses) + 1, amount |-> 5]))
  \/ (SessionActive /\ ~EffectsPending /\ SetThemeMode("dark"))
  \/ TriggerSync
  \/ \E ok \in BOOLEAN : WriteDone(ok)
  \/ IdleTimerFires
  \/ Tick

SpecSync == InitMount /\ [][NextSync]_vars

\* The same session when every remote write succeeds, with the scheduling
\* of the event loop: pending effects run, due timers fire, time passes,
\* the snapshot listener is called and a write in flight settles.
NextSyncLive ==
  \/ (~SessionActive /\ ~EffectsPending /\ AuthStateChanged(Uid))
  \/ (~SessionActive /\ ~EffectsPending /\ HandleSkipLogin)
  \/ RunEffects
  \/ OnSnapshot
  \/ (SessionActive /\ ~EffectsPending
        /\ AddExpense([id |-> Len(expenses) + 1, amount |-> 5]))
  \/ (SessionActive /\ ~EffectsPending /\ SetThemeMode("dark"))
  \/ TriggerSync
  \/ WriteDone(TRUE)
  \/ IdleTimerFires
  \/ Tick

SpecSyncLive ==
  /\ InitMount
  /\ [][NextSyncLive]_vars
  /\ WF_vars(RunEffects)
  /\ WF_vars(OnSnapshot)
  /\ WF_vars(TriggerSync)
  /\ WF_vars(WriteDone(TRUE))
  /\ WF_vars(IdleTimerFires)
  /\ WF_vars(Tick)

\* Sessions one after the other, in which nothing is entered: login,
\* offline mode, logout; every remote write succeeds and the listener is
\* called with each document the app writes, before any other event.
NextSessions ==
  LET echoDue == listening = "on" /\ last.op = "triggerSync" /\ ~last.offline
  IN \/ (~SessionActive /\ ~EffectsPending /\ AuthStateChanged(Uid))
     \/ (~SessionActive /\ ~EffectsPending /\ HandleSkipLogin)
     \/ (SessionActive /\ ~EffectsPending /\ ~echoDue /\ HandleLogout)
     \/ RunEffects
     \/ OnSnapshot
     \/ OnSnapshotEcho
     \/ TriggerSync
     \/ (~echoDue /\ WriteDone(TRUE))
     \/ (~echoDue /\ IdleTimerFires)
     \/ (~echoDue /\ Tick)

SpecSessions ==
  /\ InitMount
  /\ [][NextSessions]_vars
  /\ WF_vars(RunEffects)
  /\ WF_vars(OnSnapshot)
  /\ WF_vars(OnSnapshotEcho)
  /\ WF_vars(TriggerSync)
  /\ WF_vars(WriteDone(TRUE))
  /\ WF_vars(IdleTimerFires)
  /\ WF_vars(Tick)

\* ------------------------------------------------------------- properties
Floor0(n) == IF n < 0 THEN 0 ELSE n

\* The sequence without its k-th element.
Without(seq, k) == SubSeq(seq, 1, k - 1) \o SubSeq(seq, k + 1, Len(seq))

\* newLogs is oldLogs with exactly one entry put in front.
OneLogPrepended(oldLogs, newLogs) ==
  /\ Len(newLogs) = Len(oldLogs) + 1
  /\ Tail(newLogs) = oldLogs

\* new is old without the elements at the positions in drop, the others in
\* their order.
IsRemainder(old, new, drop) ==
  LET kept(i) == Cardinality({j \in 1..i : j \notin drop})
  IN /\ Len(new) = kept(Len(old))
     /\ \A i \in 1..Len(old) : i \notin drop => new[kept(i)] = old[i]

\* Products keep their order and everything but the stock, and the stock of
\* the product at position i becomes stockAt[i].
StocksBecome(stockAt) ==
  /\ Len(products') = Len(products)
  /\ \A i \in 1..Len(products) :
       products'[i] = [products[i] EXCEPT !.currentStock = stockAt[i]]

\* C1: addSale(sale) puts the sale in front of the sales list, sets the stock
\* of the product with id sale.productId to max(0, stock - sale.quantity),
\* leaves every other product as it is, and puts exactly one 'Created' log in
\* front of the log list, carrying the product's name, the customer's name
\* ('Retail' when no customer has sale.customerId) and sale.totalAmount.
C1_AddSale ==
  [][last'.op = "addSale" =>
       LET s == last'.sale
       IN /\ Len(sales') = Len(sales) + 1
          /\ Head(sales') = s
          /\ Tail(sales') = sales
          /\ StocksBecome([i \in 1..Len(products) |->
                IF products[i].id = s.productId
                THEN Floor0(products[i].currentStock - s.quantity)
                ELSE products[i].currentStock])
          /\ OneLogPrepended(logs, logs')
          /\ Head(logs').action = "Created"
          /\ Head(logs').amount = s.totalAmount
          /\ \A i \in 1..Len(products) :
               products[i].id = s.productId => Head(logs').entityName = products[i].name
          /\ \A i \in 1..Len(customers) :
               customers[i].id = s.customerId => Head(logs').customerName = customers[i].name
          /\ (\A i \in 1..Len(customers) : customers[i].id # s.customerId)
               => Head(logs').customerName = Retail
  ]_vars

\* A sale of 2 Rice (1 in stock) to a customer that is not in the store has
\* just been added: the floor applied and the log says Retail.
C1_Witness ==
  /\ last.op = "addSale"
  /\ last.sale.productId = P2
  /\ last.sale.quantity = 2
  /\ Len(sales) = 2
  /\ StockOf(products, P2) = 0
  /\ Head(logs).customerName = Retail

\* C2: updateSale(s) on an existing sale (old record: product A, quantity
\* qOld; new record: product B, quantity qNew) leaves A's stock increased by
\* qOld and B's stock at max(0, stock - qNew) when A # B, and at
\* max(0, stock + qOld - qNew) when A = B; it replaces the sale record in
\* place and leaves every other product as it is.
C2_UpdateSale ==
  [][(last'.op = "updateSale" /\ \E k \in 1..Len(sales) : sales[k].id = last'.sale.id) =>
       LET s == last'.sale
           k == CHOOSE j \in 1..Len(sales) : sales[j].id = s.id
           old == sales[k]
       IN /\ StocksBecome([i \in 1..Len(products) |->
                LET id == products[i].id
                    st == products[i].currentStock
                IN IF id = old.productId /\ id = s.productId
                   THEN Floor0(st + old.quantity - s.quantity)
                   ELSE IF id = old.productId THEN st + old.quantity
                   ELSE IF id = s.productId THEN Floor0(st - s.quantity)
                   ELSE st])
          /\ Len(sales') = Len(sales)
          /\ \A i \in 1..Len(sales) : sales'[i] = IF i = k THEN s ELSE sales[i]
  ]_vars

\* The sale of 1 Kale has just been reassigned to 2 Rice (1 in stock): Kale
\* got its 1 back and Rice is floored at 0.
C2_Witness ==
  /\ last.op = "updateSale"
  /\ Len(logs) = 2
  /\ logs[2].entityName = Kale
  /\ logs[1].action = "Updated"
  /\ logs[1].entityName = Rice
  /\ sales = <<last.sale>>
  /\ last.sale.quantity = 2
  /\ StockOf(products, P1) = InitStock[P1] + 1
  /\ StockOf(products, P2) = 0

\* C3: over any sequence of addSale/updateSale/deleteSale/restoreSale with
\* positive quantities, no stock is ever negative, and a product's stock is
\* its starting stock minus the quantities taken by addSale/restoreSale and
\* not given back by updateSale (deleteSale gives nothing back): exactly so
\* as long as the floor at 0 never cut a decrement, and never less once it
\* did.
C3_StockConservation ==
  \A i \in 1..Len(products) :
    LET p == products[i]
    IN /\ p.currentStock >= 0
       /\ p.currentStock >= stock0[p.id] - debt[p.id]
       /\ ~clamped[p.id] => p.currentStock = stock0[p.id] - debt[p.id]

\* Kale, 3 in stock: a sale of 2 was added, deleted and restored, and the
\* floor cut the last decrement.
C3_Witness ==
  /\ last.op = "restoreSale"
  /\ debt[P1] = 4
  /\ clamped[P1]
  /\ StockOf(products, P1) = 0
  /\ StockOf(products, P1) > stock0[P1] - debt[P1]

\* C4: deleteSale(id) on an existing sale removes exactly that sale, leaves
\* every product (and its stock) as it is and puts one 'Deleted' log in front
\* whose metadata is the deleted sale; with no sale of that id, sales,
\* products and logs stay as they are.
C4_DeleteSale ==
  [][last'.op = "deleteSale" =>
       IF \E k \in 1..Len(sales) : sales[k].id = last'.id
       THEN LET k == CHOOSE j \in 1..Len(sales) : sales[j].id = last'.id
            IN /\ sales' = Without(sales, k)
               /\ products' = products
               /\ OneLogPrepended(logs, logs')
               /\ Head(logs').action = "Deleted"
               /\ Head(logs').metadata = <<sales[k]>>
       ELSE /\ sales' = sales
            /\ products' = products
            /\ logs' = logs
  ]_vars

\* One of two sales has just been deleted: the stock still carries its
\* decrement and the log holds the snapshot.
C4_Witness ==
  /\ last.op = "deleteSale"
  /\ last.id = 1
  /\ Len(sales) = 1
  /\ sales[1].id # last.id
  /\ Head(logs).action = "Deleted"
  /\ Head(logs).metadata # NoMeta
  /\ Head(logs).metadata[1].id = last.id
  /\ Head(logs).metadata[1].productId = P1
  /\ StockOf(products, P1) < InitStock[P1]

\* C5: restoreSale(log) on a 'Deleted' log whose snapshot id is not in the
\* sales list puts the snapshot sale (same id) back in front, takes the sale
\* quantity off the referenced product's stock again (floored at 0), removes
\* the source log and adds one new 'Created' log; so after addSale(q),
\* deleteSale, restoreSale on a product with stock S the stock is
\* max(0, max(0, S - q) - q).
C5_RestoreSale ==
  [][(/\ last'.op = "restoreSale"
      /\ last'.log.metadata # NoMeta
      /\ last'.log.action = "Deleted"
      /\ \A k \in 1..Len(sales) : sales[k].id # last'.log.metadata[1].id) =>
       LET log == last'.log
           s == log.metadata[1]
       IN /\ Len(sales') = Len(sales) + 1
          /\ Head(sales') = s
          /\ Tail(sales') = sales
          /\ StocksBecome([i \in 1..Len(products) |->
                IF products[i].id = s.productId
                THEN Floor0(products[i].currentStock - s.quantity)
                ELSE products[i].currentStock])
          /\ \A i \in 1..Len(logs') : logs'[i].id # log.id
          /\ Len(logs') >= 1
          /\ Head(logs').action = "Created"
          /\ \A i \in 1..Len(logs) : logs[i].id # Head(logs').id
          /\ \A l \in Range(logs) : l.id # log.id => l \in Range(Tail(logs'))
          /\ \A l \in Range(Tail(logs')) : l \in Range(logs)
          \* the only sale and the only two logs recorded since the start are
          \* this sale's: it was added, deleted and is now restored
          /\ (s.id = 1 /\ nextSaleId = 2 /\ nextLogId = 3 /\ log \in Range(logs)) =>
               \A i \in 1..Len(products') :
                 products'[i].id = s.productId =>
                   products'[i].currentStock =
                     Floor0(Floor0(stock0[s.productId] - s.quantity) - s.quantity)
  ]_vars

\* A sale of 2 Kale out of 3 was added, deleted and has just been restored:
\* it is back under its id, the stock is max(0, max(0, 3 - 2) - 2) = 0, and
\* no 'Deleted' log is left.
C5_Witness ==
  /\ last.op = "restoreSale"
  /\ ~last.alerted
  /\ nextSaleId = 2
  /\ nextLogId = 4
  /\ Len(sales) = 2
  /\ sales[1].id = 1
  /\ sales[1].productId = P1
  /\ sales[1].quantity = 2
  /\ StockOf(products, P1) = 0
  /\ \A i \in 1..Len(logs) : logs[i].action = "Created"

\* C6: restoreSale(log) when a sale with the snapshot's id is in the sales
\* list aborts with sales, products and logs as they were; so restoring twice
\* with the same log neither inserts the sale twice nor takes the stock off
\* twice, and no restoreSale leaves two sales with one id in the list.
C6_RestoreGuard ==
  [][last'.op = "restoreSale" =>
       /\ (/\ last'.log.metadata # NoMeta
           /\ \E k \in 1..Len(sales) : sales[k].id = last'.log.metadata[1].id)
            => (sales' = sales /\ products' = products /\ logs' = logs)
       /\ \A i, j \in 1..Len(sales') : sales'[i].id = sales'[j].id => i = j
  ]_vars

\* restoreSale was called a second time with the log it had just restored
\* from: it raised the alert and the ledger holds the sale once.
C6_Witness ==
  /\ last.op = "restoreSale"
  /\ last.alerted
  /\ last.log \notin Range(logs)
  /\ Cardinality({i \in 1..Len(sales) : sales[i].id = last.log.metadata[1].id}) = 1

\* C7: after deleteCustomer(id) the customer is gone and no sale with
\* customerId = id remains; the other customers, the sales of other
\* customers, all products (with their stock) and all logs are as before.
C7_DeleteCustomer ==
  [][last'.op = "deleteCustomer" =>
       LET id == last'.id
       IN /\ \A i \in 1..Len(customers') : customers'[i].id # id
          /\ \A i \in 1..Len(sales') : sales'[i].customerId # id
          /\ IsRemainder(customers, customers',
                         {i \in 1..Len(customers) : customers[i].id = id})
          /\ IsRemainder(sales, sales', {i \in 1..Len(sales) : sales[i].customerId = id})
          /\ products' = products
          /\ logs' = logs
  ]_vars

\* Ann has just been deleted with her sales; Bob's sale is still in the
\* ledger and Kale's stock still carries all the decrements.
C7_Witness ==
  /\ last.op = "deleteCustomer"
  /\ last.id = C1id
  /\ nextSaleId = 3
  /\ Len(sales) = 1
  /\ sales[1].customerId = C2id
  /\ Len(customers) = 1
  /\ StockOf(products, P1) = InitStock[P1] - 2
  /\ Len(logs) = 3

\* C8: after deleteProduct(id) the product is gone and no sale with
\* productId = id remains; the other products, the sales of other products,
\* the customers and the logs are as before.
C8_DeleteProduct ==
  [][last'.op = "deleteProduct" =>
       LET id == last'.id
       IN /\ \A i \in 1..Len(products') : products'[i].id # id
          /\ \A i \in 1..Len(sales') : sales'[i].productId # id
          /\ IsRemainder(products, products',
                         {i \in 1..Len(products) : products[i].id = id})
          /\ IsRemainder(sales, sales', {i \in 1..Len(sales) : sales[i].productId = id})
          /\ customers' = customers
          /\ logs' = logs
  ]_vars

\* Kale has just been deleted with its sales; the sale of Rice is still in
\* the ledger.
C8_Witness ==
  /\ last.op = "deleteProduct"
  /\ last.id = P1
  /\ nextSaleId = 3
  /\ Len(sales) = 1
  /\ sales[1].productId = P2
  /\ Len(products) = 1
  /\ products[1].id = P2
  /\ Len(logs) = 3

\* C9: updateCustomer changing an existing customer's name from N to M sets
\* customerName to M in every log whose customerName is N and leaves every
\* other log as it is; when the name is unchanged or no customer has the id,
\* no log is modified.
C9_UpdateCustomer ==
  [][last'.op = "updateCustomer" =>
       LET u == last'.customer
           olds == {i \in 1..Len(customers) : customers[i].id = u.id}
       IN IF olds # {} /\ \A i \in olds : customers[i].name # u.name
          THEN /\ Len(logs') = Len(logs)
               /\ \A i \in 1..Len(logs) :
                    IF \E k \in olds : logs[i].customerName = customers[k].name
                    THEN logs'[i] = [logs[i] EXCEPT !.customerName = u.name]
                    ELSE logs'[i] = logs[i]
          ELSE logs' = logs
  ]_vars

\* Ann has just been renamed to Ann Lee: her log now says Ann Lee, Bob's log
\* still says Bob.
C9_Witness ==
  /\ last.op = "updateCustomer"
  /\ last.customer.id = C1id
  /\ last.customer.name = AnnLee
  /\ \E i \in 1..Len(logs) : logs[i].id = 0 /\ logs[i].customerName = AnnLee
  /\ \E i \in 1..Len(logs) : logs[i].customerName = Bob
  /\ \A i \in 1..Len(logs) : logs[i].customerName # Ann

\* C10: addProduct(p) when a catalogued product's lower-cased, trimmed name
\* equals p's lower-cased, trimmed name leaves the products as they are and
\* starts no image generation.
C10_DuplicateRejected ==
  [][(/\ last'.op = "addProduct"
      /\ \E i \in 1..Len(products) :
           Trim(ToLowerCase(products[i].name)) = Trim(ToLowerCase(last'.product.name))) =>
       /\ products' = products
       /\ imageTasks' = imageTasks
  ]_vars

\* addProduct has just been called with " kale " while Kale is catalogued:
\* nothing was added and no image call is pending.
C10_Witness ==
  /\ last.op = "addProduct"
  /\ last.product.name = KaleSpaced
  /\ \E i \in 1..Len(products) : products[i].name = Kale
  /\ \A i \in 1..Len(products) : products[i].id # last.product.id
  /\ Len(products) = 2
  /\ imageTasks = {}

\* The lower-cased, trimmed names of the list are pairwise different.
UniqueNames(seq) ==
  \A i, j \in 1..Len(seq) :
    Trim(ToLowerCase(seq[i].name)) = Trim(ToLowerCase(seq[j].name)) => i = j

Ids(seq) == {seq[i].id : i \in 1..Len(seq)}

\* C11: starting from a catalog with unique names, product names stay unique
\* (compared lower-cased and trimmed) in every state reached through
\* addProduct, updateProduct, addProductsBulk and bulkImportSales.
C11_UniqueNames == UniqueNames(products)

\* C12: after addProductsBulk(newProducts), sales, customers, expenses,
\* liabilities and logs are empty, products is exactly the imported list,
\* each product with the image-generation flag set and its image call
\* pending, and the four configuration scalars are as before; when an image
\* call completes, the flag of its product is cleared.
C12_AddProductsBulk ==
  [][/\ last'.op = "addProductsBulk" =>
          LET newProducts == last'.products
          IN /\ sales' = <<>>
             /\ customers' = <<>>
             /\ expenses' = <<>>
             /\ liabilities' = <<>>
             /\ logs' = <<>>
             /\ Len(products') = Len(newProducts)
             /\ \A i \in 1..Len(newProducts) :
                  /\ products'[i] = [newProducts[i] EXCEPT !.isGeneratingImage = TRUE]
                  /\ products'[i].id \in imageTasks'
             /\ config' = config
     /\ last'.op = "imageDone" =>
          /\ last'.id \notin imageTasks'
          /\ Len(products') = Len(products)
          /\ \A i \in 1..Len(products) :
               IF products[i].id = last'.id
               THEN /\ ~products'[i].isGeneratingImage
                    /\ [products'[i] EXCEPT !.imageUrl = "", !.isGeneratingImage = TRUE]
                         = [products[i] EXCEPT !.imageUrl = "", !.isGeneratingImage = TRUE]
               ELSE products'[i] = products[i]
  ]_vars

\* A file with Corn was imported, under the dark theme, over books that held
\* a sale, two customers and a log: the five lists are empty, Corn waits
\* for its image and the theme is still dark.
C12_Witness ==
  /\ last.op = "addProductsBulk"
  /\ Len(last.products) = 1
  /\ last.products[1].name = Corn
  /\ Len(products) = 1
  /\ products[1].isGeneratingImage
  /\ imageTasks = {products[1].id}
  /\ sales = <<>> /\ customers = <<>> /\ expenses = <<>>
  /\ liabilities = <<>> /\ logs = <<>>
  /\ config.themeMode = "dark"

\* C13: after bulkImportSales(rows), expenses, liabilities and logs are
\* empty, no sale, customer or product from before the import remains (none
\* of the earlier ids is in the lists), the sales list holds exactly one
\* sale per row, in the rows' order and with the row's quantity and amount,
\* and the configuration scalars are as before.
C13_BulkImportSales ==
  [][last'.op = "bulkImportSales" =>
       LET rows == last'.rows
       IN /\ expenses' = <<>>
          /\ liabilities' = <<>>
          /\ logs' = <<>>
          /\ Ids(sales') \cap Ids(sales) = {}
          /\ Ids(customers') \cap Ids(customers) = {}
          /\ Ids(products') \cap Ids(products) = {}
          /\ Len(sales') = Len(rows)
          /\ \A k \in 1..Len(rows) :
               /\ sales'[k].quantity = rows[k].Quantity
               /\ sales'[k].totalAmount = rows[k].Amount
          /\ \A i, j \in 1..Len(sales') : sales'[i].id = sales'[j].id => i = j
          /\ config' = config
  ]_vars

\* Two rows were imported over books that held an expense and a liability,
\* under the dark theme: two sales, none of the earlier records, the theme
\* still dark.
C13_Witness ==
  /\ last.op = "bulkImportSales"
  /\ Len(last.rows) = 2
  /\ Len(sales) = 2
  /\ nextSaleId = 3
  /\ \A i \in 1..Len(sales) : sales[i].id # InitSale.id
  /\ \A i \in 1..Len(customers) : customers[i].id \notin CustomerIds
  /\ \A i \in 1..Len(products) : products[i].id \notin {P1, P2}
  /\ expenses = <<>> /\ liabilities = <<>> /\ logs = <<>>
  /\ config.themeMode = "dark"

\* The stock a synthesized product ends with: from 0, each of its rows takes
\* its quantity off, never below 0.
RECURSIVE RowsStock(_, _, _, _)
RowsStock(rows, name, k, st) ==
  IF k > Len(rows) THEN st
  ELSE RowsStock(rows, name, k + 1,
                 IF Trim(ToLowerCase(rows[k].Product)) = Trim(ToLowerCase(name))
                 THEN Floor0(st - rows[k].Quantity) ELSE st)

GoneLogs == Ids(logs) \ Ids(logs')

\* C20 as stated: across every mutation operation an existing log entry
\* leaves the log list only through deleteLog(id) of that entry or through
\* restoreSale consuming that entry.
C20_AppendOnly_Original ==
  [][\A id \in GoneLogs :
       \/ last'.op = "deleteLog" /\ last'.id = id
       \/ last'.op = "restoreSale" /\ last'.log.id = id
  ]_vars

\* C20, amended: an existing log entry leaves the log list only through
\* deleteLog(id) of that entry, through restoreSale consuming that entry,
\* through the session wipe of addProductsBulk or bulkImportSales, or
\* through handleMasterRestore replacing the list by the backup's; every
\* other step keeps the entries in their order, new ones in front.
C20_AppendOnly ==
  [][/\ \A id \in GoneLogs :
          \/ last'.op = "deleteLog" /\ last'.id = id
          \/ last'.op = "restoreSale" /\ last'.log.id = id
          \/ last'.op \in {"addProductsBulk", "bulkImportSales", "masterRestore"}
     /\ last'.op \in {"addProductsBulk", "bulkImportSales"} => logs' = <<>>
     /\ last'.op \notin {"addProductsBulk", "bulkImportSales", "masterRestore"} =>
          LET kept == SelectSeq(logs, LAMBDA l : l.id \notin GoneLogs)
              d == Len(logs') - Len(kept)
          IN /\ d \in {0, 1}
             /\ \A i \in 1..Len(kept) : logs'[i + d].id = kept[i].id
  ]_vars

\* deleteLog has just removed one of three entries: the other two are still
\* in the list, in their order.
C20_Witness ==
  /\ last.op = "deleteLog"
  /\ nextLogId = 3
  /\ Len(logs) = 2
  /\ \A i \in 1..Len(logs) : logs[i].id # last.id
  /\ logs[1].id > logs[2].id

\* The step is the sync effect noticing a change of the books.
ChangeDetected ==
  /\ last'.op = "effects"
  /\ syncedDeps # <<>>
  /\ syncedDeps[1] # CurrentData

\* C15: state changes that each come less than the debounce window after
\* the previous one produce one flush: every change cancels the scheduled
\* flush and schedules one a full window later over the state of that
\* change; a flush fires only a full window after the last change, carries
\* the in-memory state of that moment, and no second flush follows without
\* a further change.
C15_DebounceCollapse ==
  [][/\ ChangeDetected =>
          /\ syncTimer' = <<[left |-> DebounceMs, data |-> CurrentData,
                             offline |-> isOfflineMode, uid |-> user]>>
          /\ CurrentData' = CurrentData
          /\ burst'.flushes = 0
     /\ last'.op = "triggerSync" =>
          /\ burst.elapsed = DebounceMs
          /\ burst.flushes = 0
          /\ burst.changes >= 1
          /\ last'.data = CurrentData
          /\ CurrentData' = CurrentData
          /\ syncTimer' = NoTimer
     /\ burst'.flushes <= 1
     /\ (syncTimer' # NoTimer /\ ~ChangeDetected) =>
          /\ syncTimer # NoTimer
          /\ syncTimer'[1].data = syncTimer[1].data
          /\ syncTimer'[1].left <= syncTimer[1].left
  ]_vars

\* Offline, with nothing stored: an expense was entered and the theme
\* switched within one window, and the one flush that followed wrote both.
C15_Witness ==
  /\ last.op = "triggerSync"
  /\ isOfflineMode
  /\ burst.changes = 2
  /\ burst.flushes = 1
  /\ burst.edited
  /\ Len(expenses) = 1
  /\ config.themeMode = "dark"
  /\ localStore = <<CurrentData>>
  /\ syncTimer = NoTimer

\* C16: the first-sync guard suppresses the write hydration would trigger:
\* loading the persisted snapshot at startup (local storage when offline,
\* the first snapshot of the remote document after login) causes no flush
\* by itself, so every flush comes after an edit of the books.
C16_NoWriteBack ==
  [][last'.op = "triggerSync" => burst.edited]_vars

\* the save status changes from a to b
StatusStep(a, b) == saveStatus = a /\ saveStatus' = b

\* C17: each flush writes to exactly one backend chosen by the offline flag
\* (local storage when offline, the user's remote document otherwise); in
\* offline mode saveStatus goes offline then idle and is never 'saved'; in
\* remote mode the status of each flush goes saving, then saved, then idle
\* in that order, also when a later flush starts before the previous
\* flush's return-to-idle timer has fired.
C17_StatusOrder ==
  [][/\ last'.op = "triggerSync" =>
          IF last'.offline
          THEN /\ localStore' = <<last'.data>>
               /\ writes' = writes
               /\ remoteDoc' = remoteDoc
               /\ saveStatus' = "offline"
          ELSE /\ writes' = Append(writes, [data |-> last'.data, uid |-> user])
               /\ localStore' = localStore
               /\ saveStatus' = "saving"
     /\ isOfflineMode' => saveStatus' # "saved"
     /\ (isOfflineMode /\ saveStatus' # saveStatus) =>
          \/ StatusStep("idle", "offline")
          \/ StatusStep("offline", "idle")
     /\ (~isOfflineMode /\ saveStatus' # saveStatus) =>
          \/ StatusStep("idle", "saving")
          \/ StatusStep("saving", "saved")
          \/ StatusStep("saved", "idle")
          \/ StatusStep("saved", "saving")
  ]_vars

\* C19: a failed remote write is swallowed: it changes none of the
\* collections or configuration scalars, leaves the remote document as it
\* was, and is not retried (the write leaves the queue and no flush is
\* scheduled by the failure); a flush is scheduled only by a state change,
\* and every snapshot sent is the in-memory state at the time of its flush.
C19_FailedWriteSwallowed ==
  [][/\ last'.op = "writeFailed" =>
          /\ CurrentData' = CurrentData
          /\ remoteDoc' = remoteDoc
          /\ localStore' = localStore
          /\ writes' = Tail(writes)
          /\ syncTimer' = syncTimer
     /\ (writes' # writes /\ last'.op # "writeDone" /\ last'.op # "writeFailed") =>
          /\ last'.op = "triggerSync"
          /\ writes' = Append(writes, [data |-> CurrentData, uid |-> user])
     /\ (syncTimer' # NoTimer /\ syncTimer' # syncTimer /\ last'.op # "tick") =>
          /\ ChangeDetected
          /\ syncTimer'[1].data = CurrentData
  ]_vars

\* The write of an entered expense has just failed: the expense is still in
\* memory, the remote document does not have it, nothing is queued or
\* scheduled, and the status says saved.
C19_Witness ==
  /\ last.op = "writeFailed"
  /\ user = Uid
  /\ Len(expenses) = 1
  /\ remoteDoc # <<CurrentData>>
  /\ writes = <<>>
  /\ syncTimer = NoTimer
  /\ saveStatus = "saved"

\* The durable copy of the active backend is the in-memory state: all six
\* collections and the four configuration scalars.
DurableIsCurrent ==
  IF isOfflineMode THEN localStore = <<CurrentData>>
  ELSE remoteDoc = <<CurrentData>>

\* C18: once the state has changed in a session, and provided writes
\* succeed and the changes stop, the durable copy in the active backend
\* (local storage when offline, the user's document otherwise) eventually
\* equals the complete in-memory state and stays so.
C18_EventuallyDurable ==
  <>[]((SessionActive /\ burst.changes > 0) => DurableIsCurrent)

\* Logged in, with a document to load: the snapshot was loaded, an expense
\* entered and the theme switched, and the remote document now holds all
\* of it, nothing left to flush.
C18_Witness ==
  /\ user = Uid
  /\ burst.edited
  /\ Len(expenses) = 1
  /\ Len(sales) = 1
  /\ config.themeMode = "dark"
  /\ remoteDoc = <<CurrentData>>
  /\ syncTimer = NoTimer
  /\ writes = <<>>
  /\ ~EffectsPending

\* C21: every mutation operation appends at most one activity log, and only
\* the sale mutations append one: addSale, updateSale of a listed sale and
\* deleteSale of a listed sale put exactly one entry in front of the list,
\* restoreSale leaves the length of the list as it was (one entry removed,
\* one added, or nothing done), and the customer, product, stock, expense
\* and liability operations keep the entries of the list and their number.
C21_LogAppends ==
  [][/\ Len(logs') <= Len(logs) + 1
     /\ last'.op = "addSale" => OneLogPrepended(logs, logs')
     /\ last'.op = "updateSale" =>
          IF FindById(sales, last'.sale.id) # <<>>
          THEN OneLogPrepended(logs, logs') ELSE logs' = logs
     /\ last'.op = "deleteSale" =>
          IF FindById(sales, last'.id) # <<>>
          THEN OneLogPrepended(logs, logs') ELSE logs' = logs
     /\ last'.op = "restoreSale" =>
          /\ Len(logs') = Len(logs)
          /\ Cardinality(Ids(logs') \ Ids(logs)) = Cardinality(Ids(logs) \ Ids(logs'))
          /\ Cardinality(Ids(logs') \ Ids(logs)) <= 1
     /\ last'.op \in {"addCustomer", "updateCustomer", "deleteCustomer",
                      "updateProduct", "deleteProduct", "updateStock",
                      "addExpense", "updateExpense", "deleteExpense",
                      "addLiability", "updateLiability", "settleLiability"} =>
          /\ Len(logs') = Len(logs)
          /\ Ids(logs') = Ids(logs)
  ]_vars

\* The sale of the hydrated books was deleted and then restored from its
\* 'Deleted' log: that log is gone, a 'Created' log took its place, and the
\* list has the two entries it had before the restore.
C21_Witness ==
  /\ last.op = "restoreSale"
  /\ ~last.alerted
  /\ last.log.metadata # NoMeta
  /\ last.log.id \notin Ids(logs)
  /\ Len(logs) = 2
  /\ logs[1].action = "Created"
  /\ Len(sales) = 1

\* C22: liability status is one-way: a liability with status 'Settled' is
\* not 'Active' again after any addLiability, updateLiability or
\* settleLiability.
C22_SettledStays ==
  [][\A i \in 1..Len(liabilities), j \in 1..Len(liabilities') :
       (liabilities[i].status = "Settled" /\ liabilities'[j].id = liabilities[i].id)
         => liabilities'[j].status = "Settled"]_vars

\* C25: referential integrity under cascades: from books in which every sale
\* references a listed product and a listed customer, after addSale and
\* updateSale with valid references, deleteSale, restoreSale, deleteCustomer
\* and deleteProduct, every sale of the ledger still references a product
\* and a customer that exist.
C25_ReferentialIntegrity ==
  \A i \in 1..Len(sales) :
    /\ FindById(products, sales[i].productId) # <<>>
    /\ FindById(customers, sales[i].customerId) # <<>>

\* C30: an updateSale that changes neither the product nor the quantity of
\* a listed sale (a payment-status toggle, a date edit) leaves the
\* currentStock of every product as it was, whatever non-negative stock the
\* products have.
C30_ToggleKeepsStock ==
  [][(/\ last'.op = "updateSale"
      /\ FindById(sales, last'.sale.id) # <<>>
      /\ FindById(sales, last'.sale.id)[1].productId = last'.sale.productId
      /\ FindById(sales, last'.sale.id)[1].quantity = last'.sale.quantity
      /\ \A i \in 1..Len(products) : products[i].currentStock >= 0)
     => products' = products]_vars

\* The stock a product ends with when the line items from position k on
\* each take their quantity off it in order, never below 0.
RECURSIVE BillStock(_, _, _, _)
BillStock(items, pid, k, st) ==
  IF k > Len(items) THEN st
  ELSE BillStock(items, pid, k + 1,
                 IF items[k].productId = pid THEN Floor0(Fl(st - items[k].quantity))
                 ELSE st)

\* C26: a checkout with k line items adds exactly k sales and k 'Created'
\* logs, one per line item (the last line first in both lists, in front of
\* what was there), and each product's stock ends at what the floored
\* decrement of each of its line items, applied in order, leaves; also when
\* two line items name the same product.
C26_CheckoutComposes ==
  [][last'.op = "checkout" =>
       LET items == last'.items
           k == Len(items)
       IN /\ Len(sales') = Len(sales) + k
          /\ SubSeq(sales', k + 1, Len(sales')) = sales
          /\ \A j \in 1..k :
               /\ sales'[k + 1 - j].productId = items[j].productId
               /\ sales'[k + 1 - j].quantity = items[j].quantity
               /\ sales'[k + 1 - j].customerId = last'.customerId
               /\ sales'[k + 1 - j].id \notin Ids(sales)
          /\ Cardinality(Ids(sales')) = Cardinality(Ids(sales)) + k
          /\ Len(logs') = Len(logs) + k
          /\ SubSeq(logs', k + 1, Len(logs')) = logs
          /\ \A j \in 1..k :
               /\ logs'[k + 1 - j].action = "Created"
               /\ logs'[k + 1 - j].amount = sales'[k + 1 - j].totalAmount
               /\ logs'[k + 1 - j].details = SoldDetails(items[j].quantity)
          /\ Len(products') = Len(products)
          /\ \A i \in 1..Len(products) :
               products'[i] = [products[i] EXCEPT !.currentStock =
                                 BillStock(items, products[i].id, 1, @)]
  ]_vars

\* A bill with two lines of 2 Kale each, on a stock of 3: two sales and two
\* logs were added and the stock of Kale is 0 (3, then 1, then the floor).
C26_Witness ==
  /\ last.op = "checkout"
  /\ Len(last.items) = 2
  /\ \A j \in 1..2 : last.items[j] = [productId |-> P1, quantity |-> 2]
  /\ Len(sales) = 3
  /\ Len(logs) = 3
  /\ StockOf(products, P1) = 0

\* the product with id Pid(n) is listed with its isGeneratingImage flag set
Generating(n) ==
  \E i \in 1..Len(products) : products[i].id = Pid(n) /\ products[i].isGeneratingImage

\* C24: the image-generation flag is transient: every product whose
\* isGeneratingImage flag is set (by addProduct, addProductsBulk,
\* triggerImageGeneration or bulkImportSales) eventually has the flag
\* cleared or is removed, when every image call eventually returns.
C24_FlagTransient ==
  \A n \in 1..(2 * MaxStamp) : Generating(n) ~> ~Generating(n)

\* C23: applying a loaded snapshot overwrites each collection and
\* configuration scalar that is present in the loaded data with the loaded
\* value, and leaves every collection and scalar absent from the loaded data
\* at its current in-memory value.
C23_LoadOverwrites ==
  [][last'.op = "masterRestore"
       => \A key \in DataKeys :
            CurrentData'[key] = IF key \in DOMAIN last'.data
                                THEN last'.data[key]
                                ELSE CurrentData[key]]_vars

\* C27: no local mutation is lost to the live subscription: an expense
\* entered while authenticated (the k-th of the list) is contained in a
\* snapshot later written to the user's remote document, also when a
\* snapshot of the remote document is delivered between the entry and its
\* debounced flush.
C27_NoLostMutation ==
  \A k \in 1..MaxEntries :
    (user # NoUser /\ last.op = "addExpense" /\ Len(expenses) = k)
      ~> (remoteDoc # <<>> /\ Len(remoteDoc[1].expenses) >= k)

\* C28: sync quiescence: in remote mode, when from some point on the user
\* does nothing (no login or logout; these sessions have no mutation and no
\* other device writing), the controller performs only finitely many
\* flushes: the delivery of the app's own written snapshot schedules no
\* further write.
C28_Quiescence ==
  <>[][last'.op \notin {"authStateChanged", "skipLogin", "logout"}]_vars
    => <>[][last'.op # "triggerSync"]_vars

\* C29: session isolation: a flush to the user's remote document never
\* carries entity data loaded under a different backend. In these sessions
\* no sale is entered, so the sales in memory were loaded from local storage
\* or from the remote document: a write to the remote document carries sales
\* only when the remote document holds sales.
C29_SessionIsolation ==
  \A i \in 1..Len(writes) :
    writes[i].data.sales # <<>> => remoteDoc # <<>> /\ remoteDoc[1].sales # <<>>

====
